---- MODULE Spec2Model ----
(***************************************************************************)
(* Model of the Load Metrics Engine of sports_load_agent:                  *)
(*   core/load_calculator.py  (LoadCalculator)                             *)
(*   utils/column_mapper.py   (ColumnMapper, combine_multiple_files)       *)
(*   agent_state.py           (DataFrameHandle, AgentState)                *)
(*   agent_graph.py, nodes/   (the workflow graph and its four nodes)      *)
(*   api/routes.py            (upload, process, chat, delete)              *)
(*   chat_agent.py, tools/    (the chat agent and the tools it calls)      *)
(*                                                                         *)
(* Units.  data values are integers.  short_term_ave and long_term_ave     *)
(* hold hundredths (the columns are rounded to 2 decimals), load holds     *)
(* ten-thousandths (rounded to 4 decimals).  A date is a day number whose  *)
(* weekday is (day % 7), Monday = 0 .. Sunday = 6, as datetime.weekday().  *)
(***************************************************************************)
EXTENDS Integers, Sequences, FiniteSets, TLC

\* LoadCalculator
VARIABLES df, cols, err, call, pc
\* ColumnMapper
VARIABLES original_columns, table, mapping, has_srpe_columns, rpe_column,
          time_column, result, mpc

\* DataFrameHandle: the cache directory, the frames committed and their
\* handles, the outcome of the last load, the last serialized handle and
\* the handle restored from it
VARIABLES cache, frames, handles, loaded, serialized, restored
\* combine_multiple_files: its argument, the files on disk and its outcome
VARIABLES file_paths, files, combined
\* the workflow graph: the AgentState, the node to run next and the files
\* written to the outputs directory
VARIABLES state, node, outputs
\* two calculators run on two frames
VARIABLES pair
\* a calculator constructed on a frame and cleaned
VARIABLES cleaned
\* the API: the sessions store, the session ids handed out, the chat agents,
\* the session of the process request in flight and the last response
VARIABLES sessions, issued, chat_agents, running, response

calc_vars == <<df, cols, err, call, pc>>
mapper_vars == <<original_columns, table, mapping, has_srpe_columns, rpe_column,
                 time_column, result, mpc>>
handle_vars == <<cache, frames, handles, loaded, serialized, restored>>
combine_vars == <<file_paths, files, combined>>
graph_vars == <<state, node, outputs>>
api_vars == <<sessions, issued, chat_agents, running, response>>
more_vars == <<cleaned, api_vars>>
rest_vars == <<handle_vars, combine_vars, graph_vars, pair, more_vars>>
vars == <<calc_vars, mapper_vars, rest_vars>>

\* a handle class that is never used
IdleHandle ==
  /\ cache = <<>>
  /\ frames = <<>>
  /\ handles = <<>>
  /\ loaded = <<>>
  /\ serialized = <<>>
  /\ restored = <<>>

\* no batch of files to combine
IdleCombine ==
  /\ file_paths = <<>>
  /\ files = <<>>
  /\ combined = <<>>

\* no workflow run
IdleGraph ==
  /\ state = <<>>
  /\ node = "idle"
  /\ outputs = <<>>

IdlePair == pair = <<>>

IdleClean == cleaned = <<>>

\* an API that is never called
IdleApi ==
  /\ sessions = <<>>
  /\ issued = {}
  /\ chat_agents = <<>>
  /\ running = <<>>
  /\ response = <<>>

IdleMore == IdleClean /\ IdleApi

(***************************************************************************)
(* Cells of a table.                                                       *)
(***************************************************************************)
Num(n) == [k |-> "num", v |-> n]
\* NaN / NaT / None: the missing value of a column
NaN == [k |-> "nan", v |-> 0]
\* a non-numeric token of an object column, such as 'x' or '-'
Txt == [k |-> "str", v |-> 0]
\* float infinity, the quotient x / 0.0 for x > 0
Inf == [k |-> "inf", v |-> 0]

IsNa(c) == c.k = "nan"
IsNum(c) == c.k = "num"

\* bounds of the inputs: a frame of at most MaxRows arbitrary rows, or the
\* records of one player on at most MaxSeries distinct days; for the stages
\* called in any order, MaxOrderRows and MaxOrderSeries
MaxRows == 2
MaxSeries == 4
MaxOrderRows == 1
MaxOrderSeries == 2
Players == {"A", "B"}
InputDays == {5, 6, 13}
InputData == {NaN, Txt, Num(1), Num(3)}
SeriesDays == {5, 6, 7, 8, 13, 14, 20}
SeriesData == {Num(0), Num(1), Num(3)}

\* Python's ordering of the player strings
PlayerRank(p) == CASE p = "A" -> 1 [] p = "B" -> 2 [] OTHER -> 3

\* str.strip() on a player identifier
StripName(p) == IF p = " " THEN "" ELSE p

\* a row of the frame; a column that is not in cols holds its placeholder
MkRow(p, d, x) ==
  [player_name |-> p, date |-> d, data |-> x, short_term_ave |-> NaN,
   week_index |-> NaN, long_term_ave |-> NaN, load |-> NaN,
   load_quality |-> "None"]

BaseCols == {"player_name", "date", "data"}

(***************************************************************************)
(* Sequence helpers.                                                       *)
(***************************************************************************)
RECURSIVE SumSeq(_)
SumSeq(s) == IF s = <<>> THEN 0 ELSE Head(s) + SumSeq(Tail(s))

\* round-half-even of n / d for n >= 0, d > 0 (numpy round)
RoundDiv(n, d) ==
  LET q == n \div d
      r == n % d
  IN  IF 2 * r < d THEN q
      ELSE IF 2 * r > d THEN q + 1
      ELSE IF q % 2 = 0 THEN q ELSE q + 1

\* sort key (player_name, date), NaT last
RowLeq(a, b) ==
  \/ PlayerRank(a.player_name) < PlayerRank(b.player_name)
  \/ /\ a.player_name = b.player_name
     /\ \/ IsNa(b.date)
        \/ ~IsNa(a.date) /\ a.date.v <= b.date.v

RECURSIVE Insert(_, _)
Insert(r, s) ==
  IF s = <<>> THEN <<r>>
  ELSE IF RowLeq(r, Head(s)) /\ ~RowLeq(Head(s), r) THEN <<r>> \o s
  ELSE <<Head(s)>> \o Insert(r, Tail(s))

\* df.sort_values(["player_name", "date"]): stable
RECURSIVE SortRows(_)
SortRows(s) ==
  IF s = <<>> THEN <<>>
  ELSE LET rest == SortRows(SubSeq(s, 1, Len(s) - 1))
       IN  Insert(s[Len(s)], rest)

PlayersOf(s) == {s[i].player_name : i \in 1..Len(s)}

\* a group that holds the rows of every player
GroupOfAll(s, p) == s

\* the rows of one player, in frame order (a groupby group)
GroupOf(s, p) == SelectSeq(s, LAMBDA r : r.player_name = p)

\* 1-based position of row i of s inside its player's group
PosInGroup(s, i) ==
  Cardinality({j \in 1..i : s[j].player_name = s[i].player_name})

ValidDates(s) == {s[i].date.v : i \in {j \in 1..Len(s) : ~IsNa(s[j].date)}}

MinOf(S) == CHOOSE x \in S : \A y \in S : x <= y
MaxOf(S) == CHOOSE x \in S : \A y \in S : y <= x

(***************************************************************************)
(* LoadCalculator.clean_data                                               *)
(***************************************************************************)
\* pd.to_numeric(errors="coerce")
ToNumeric(c) == IF c.k = "str" THEN NaN ELSE c

\* a wholly blank row: no player, no date, no data
AllEmpty(r) ==
  /\ StripName(r.player_name) = ""
  /\ IsNa(r.date)
  /\ IsNa(r.data)

\* a cleaning that drops the rows without a load value as well
clean_data_dropna(s) ==
  LET numeric == [i \in 1..Len(s) |-> [s[i] EXCEPT !.data = ToNumeric(s[i].data)]]
  IN  SelectSeq(numeric, LAMBDA r : ~IsNa(r.date) /\ ~IsNa(r.data))

clean_data(s) ==
  LET numeric == [i \in 1..Len(s) |-> [s[i] EXCEPT !.data = ToNumeric(s[i].data)]]
      step1 == SelectSeq(numeric, LAMBDA r : ~AllEmpty(r))
  IN  SelectSeq(step1, LAMBDA r : ~IsNa(r.date))

(***************************************************************************)
(* LoadCalculator.fill_missing_dates                                       *)
(***************************************************************************)
\* df["player_name"].unique(): the players in order of first appearance
RECURSIVE UniquePlayers(_)
UniquePlayers(s) ==
  IF s = <<>> THEN <<>>
  ELSE LET init == UniquePlayers(SubSeq(s, 1, Len(s) - 1))
           p == s[Len(s)].player_name
       IN  IF \E i \in 1..Len(init) : init[i] = p THEN init ELSE Append(init, p)

\* the row of the scaffold for (p, d) when the frame has no record of it:
\* every other column is missing
ScaffoldRow(p, d) == MkRow(p, Num(d), NaN)

\* left join of one scaffold key onto the frame: every matching record, in
\* frame order, or the scaffold row alone
JoinKey(s, p, d) ==
  LET hits == SelectSeq(s, LAMBDA r : r.player_name = p /\ r.date = Num(d))
  IN  IF hits = <<>> THEN <<ScaffoldRow(p, d)>> ELSE hits

RECURSIVE JoinDays(_, _, _, _)
JoinDays(s, p, d, hi) ==
  IF d > hi THEN <<>> ELSE JoinKey(s, p, d) \o JoinDays(s, p, d + 1, hi)

RECURSIVE JoinPlayers(_, _, _, _)
JoinPlayers(s, ps, lo, hi) ==
  IF ps = <<>> THEN <<>>
  ELSE JoinDays(s, Head(ps), lo, hi) \o JoinPlayers(s, Tail(ps), lo, hi)

\* result of fill_missing_dates: the frame and the exception raised, if any
fill_missing_dates(s) ==
  IF s = <<>> THEN [df |-> s, err |-> "none"]
  ELSE IF ValidDates(s) = {} THEN [df |-> s, err |-> "ValueError"]
  ELSE LET min_date == MinOf(ValidDates(s))
           max_date == MaxOf(ValidDates(s))
           merged == JoinPlayers(s, UniquePlayers(s), min_date, max_date)
       IN  [df |-> SortRows(merged), err |-> "none"]

(***************************************************************************)
(* LoadCalculator._compute_short_term_for_player, add_short_term_average   *)
(***************************************************************************)
\* a rolling window over the last 3 rows instead of the last 3 non-missing
\* values
ShortAtCalendar(ds, i) ==
  IF i - 1 < 2 \/ \E j \in (i - 2)..i : ~IsNum(ds[j]) THEN NaN
  ELSE Num(RoundDiv(100 * (ds[i - 2].v + ds[i - 1].v + ds[i].v), 3))

\* the value appended to short_vals at 1-based position i of the series ds
\* (idx = i - 1 in the code), rounded to 2 decimals
ShortAt(ds, i) ==
  LET non_na_values == SelectSeq(SubSeq(ds, 1, i), LAMBDA c : ~IsNa(c))
      n == Len(non_na_values)
  IN  IF i - 1 < 2 \/ n < 3 THEN NaN
      ELSE LET window_vals == SubSeq(non_na_values, n - 2, n)
           IN  Num(RoundDiv(100 * (window_vals[1].v + window_vals[2].v
                                   + window_vals[3].v), 3))

\* float(val) raises ValueError on a non-numeric token
ShortRaises(ds) == \E i \in 1..Len(ds) : ds[i].k = "str"

add_short_term_average(s) ==
  LET sorted == SortRows(s)
      series(p) == LET g == GroupOf(sorted, p)
                   IN  [i \in 1..Len(g) |-> g[i].data]
      bad == {p \in PlayersOf(sorted) : ShortRaises(series(p))}
      \* groupby visits the players in key order and stops at the first raise
      done(p) == \A b \in bad : PlayerRank(p) < PlayerRank(b)
      value(i) == IF done(sorted[i].player_name)
                  THEN ShortAt(series(sorted[i].player_name), PosInGroup(sorted, i))
                  ELSE NaN
  IN  [df  |-> [i \in 1..Len(sorted) |->
                  [sorted[i] EXCEPT !.short_term_ave = value(i)]],
       err |-> IF bad = {} THEN "none" ELSE "ValueError"]

(***************************************************************************)
(* LoadCalculator._assign_weeks                                            *)
(***************************************************************************)
\* datetime.weekday(): Monday = 0 .. Sunday = 6
Weekday(d) == d % 7

FirstSunday(start_date) == start_date + ((6 - Weekday(start_date)) % 7)

\* the first Sunday itself counted into week 0
week_index_sunday_in_week0(d, first_sunday) ==
  IF IsNa(d) THEN Num(0 - 1)
  ELSE IF d.v <= first_sunday THEN Num(0)
  ELSE Num(1 + ((d.v - first_sunday) \div 7))

week_index_for_date(d, first_sunday) ==
  IF IsNa(d) THEN Num(0 - 1)
  ELSE IF d.v < first_sunday THEN Num(0)
  ELSE Num(1 + ((d.v - first_sunday) \div 7))

assign_weeks(s) ==
  IF ValidDates(s) = {}
  THEN [i \in 1..Len(s) |-> [s[i] EXCEPT !.week_index = Num(0)]]
  ELSE LET first_sunday == FirstSunday(MinOf(ValidDates(s)))
       IN  [i \in 1..Len(s) |->
              [s[i] EXCEPT !.week_index = week_index_for_date(s[i].date, first_sunday)]]

(***************************************************************************)
(* LoadCalculator._compute_long_term_for_player, add_long_term_average     *)
(***************************************************************************)
\* the window moved on by one week: weeks w-1 and w
ValuesThrough(g, w) ==
  SelectSeq(g, LAMBDA r : /\ r.week_index \in {Num(w - 1), Num(w)}
                          /\ ~IsNa(r.data))

\* the non-missing data of the player's rows in weeks w-2 and w-1
ValuesPrev(g, w) ==
  SelectSeq(g, LAMBDA r : /\ r.week_index \in {Num(w - 2), Num(w - 1)}
                          /\ ~IsNa(r.data))

\* the mean of the two weekly means instead of the pooled mean
LongAtWeighted(g, w) ==
  LET vals(k) == SelectSeq(g, LAMBDA r : r.week_index = Num(k) /\ ~IsNa(r.data))
      total(q) == SumSeq([i \in 1..Len(q) |-> q[i].data.v])
      a == vals(w - 2)
      b == vals(w - 1)
  IN  IF w < 2 \/ (a = <<>> /\ b = <<>>) THEN NaN
      ELSE IF a = <<>> THEN Num(RoundDiv(100 * total(b), Len(b)))
      ELSE IF b = <<>> THEN Num(RoundDiv(100 * total(a), Len(a)))
      ELSE Num(RoundDiv(100 * (total(a) * Len(b) + total(b) * Len(a)),
                        2 * Len(a) * Len(b)))

\* long_term_ave of the rows of week w of the group g, rounded to 2 decimals
LongAt(g, w) ==
  LET values_prev == ValuesPrev(g, w)
  IN  IF w < 2 \/ values_prev = <<>> THEN NaN
      ELSE Num(RoundDiv(100 * SumSeq([i \in 1..Len(values_prev) |-> values_prev[i].data.v]),
                        Len(values_prev)))

\* values_prev.mean() is reached for some week of the group; on an object
\* column (strings, as read from a file with a non-numeric token) it raises
\* TypeError
LongRaises(g) ==
  \E i \in 1..Len(g) :
    /\ IsNum(g[i].week_index)
    /\ g[i].week_index.v >= 2
    /\ ValuesPrev(g, g[i].week_index.v) # <<>>

\* the stage never assigning week_index itself
add_long_term_average_no_weeks(s, has_weeks) ==
  LET sorted == SortRows(s)
  IN  [df  |-> [i \in 1..Len(sorted) |-> [sorted[i] EXCEPT !.long_term_ave = NaN]],
       err |-> "none"]

add_long_term_average(s, has_weeks) ==
  LET weeked == IF has_weeks THEN s ELSE assign_weeks(s)
      sorted == SortRows(weeked)
      object_dtype == \E i \in 1..Len(sorted) : sorted[i].data.k = "str"
      bad == {p \in PlayersOf(sorted) : object_dtype /\ LongRaises(GroupOf(sorted, p))}
      done(p) == \A b \in bad : PlayerRank(p) < PlayerRank(b)
      value(r) == IF done(r.player_name) /\ IsNum(r.week_index)
                  THEN LongAt(GroupOf(sorted, r.player_name), r.week_index.v)
                  ELSE NaN
  IN  [df  |-> [i \in 1..Len(sorted) |->
                  [sorted[i] EXCEPT !.long_term_ave = value(sorted[i])]],
       err |-> IF bad = {} THEN "none" ELSE "TypeError"]

(***************************************************************************)
(* LoadCalculator.add_load_and_quality                                     *)
(***************************************************************************)
\* the ratio rounded to 2 decimals instead of 4
LoadOfRound2(short, long) ==
  IF IsNa(short) \/ IsNa(long) THEN NaN
  ELSE IF long.v = 0 THEN (IF short.v = 0 THEN NaN ELSE Inf)
  ELSE Num(100 * RoundDiv(100 * short.v, long.v))

\* short_term_ave / long_term_ave with missing propagated, rounded to 4
\* decimals; float division by 0.0 gives inf, and nan for 0.0 / 0.0
LoadOf(short, long) ==
  IF IsNa(short) \/ IsNa(long) THEN NaN
  ELSE IF long.v = 0 THEN (IF short.v = 0 THEN NaN ELSE Inf)
  ELSE Num(RoundDiv(10000 * short.v, long.v))

HighAbove == 15000
LowBelow == 6667

\* the user-facing label 0.67 used as the comparison constant
categorize_067(load) ==
  IF IsNa(load) THEN "None"
  ELSE IF load.k = "inf" \/ load.v > HighAbove THEN "high"
  ELSE IF load.v < 6700 THEN "low"
  ELSE "medium"

categorize(load) ==
  IF IsNa(load) THEN "None"
  ELSE IF load.k = "inf" \/ load.v > HighAbove THEN "high"
  ELSE IF load.v < LowBelow THEN "low"
  ELSE "medium"

add_load_and_quality(s) ==
  [i \in 1..Len(s) |->
     LET load == LoadOf(s[i].short_term_ave, s[i].long_term_ave)
     IN  [s[i] EXCEPT !.load = load, !.load_quality = categorize(load)]]

(***************************************************************************)
(* ColumnMapper.  A column name is the sequence of its characters.         *)
(***************************************************************************)
\* the value None of an Optional[str]
None == <<>>

UpperCase == <<"A", "B", "C", "D", "E", "F", "G", "H", "I", "J", "K", "L", "M", "N", "O", "P", "Q", "R", "S", "T", "U", "V", "W", "X", "Y", "Z">>
LowerCase == <<"a", "b", "c", "d", "e", "f", "g", "h", "i", "j", "k", "l", "m", "n", "o", "p", "q", "r", "s", "t", "u", "v", "w", "x", "y", "z">>

\* str.lower() on one character
ToLower ==
  [c \in {UpperCase[i] : i \in 1..Len(UpperCase)} |->
     LowerCase[CHOOSE i \in 1..Len(UpperCase) : UpperCase[i] = c]]

LowerChar(c) == IF c \in DOMAIN ToLower THEN ToLower[c] ELSE c

Lower(name) == [i \in 1..Len(name) |-> LowerChar(name[i])]

\* the characters \s matches
WhiteSpace == {" ", "\t", "\n", "\r"}

\* str.strip()
RECURSIVE LStrip(_)
LStrip(name) ==
  IF name # <<>> /\ Head(name) \in WhiteSpace THEN LStrip(Tail(name)) ELSE name

RECURSIVE RStrip(_)
RStrip(name) ==
  IF name # <<>> /\ name[Len(name)] \in WhiteSpace
  THEN RStrip(SubSeq(name, 1, Len(name) - 1))
  ELSE name

Strip(name) == RStrip(LStrip(name))

\* a pattern ^...$ is a sequence of items: one character of a class,
\* optional when followed by ?
Lit(word) == [i \in 1..Len(word) |-> [chars |-> {word[i]}, opt |-> FALSE]]
\* [\s_]?
Sep == [chars |-> WhiteSpace \cup {"_"}, opt |-> TRUE]
\* c?
Opt(c) == [chars |-> {c}, opt |-> TRUE]

PLAYER_PATTERNS ==
  << Lit(<<"a", "t", "h", "l", "e", "t", "e">>) \o <<Sep>> \o Lit(<<"n", "a", "m", "e">>),
     Lit(<<"p", "l", "a", "y", "e", "r">>) \o <<Sep>> \o Lit(<<"n", "a", "m", "e">>),
     Lit(<<"p", "l", "a", "y", "e", "r">>),
     Lit(<<"a", "t", "h", "l", "e", "t", "e">>),
     Lit(<<"n", "a", "m", "e">>),
     Lit(<<"p", "l", "a", "y", "e", "r">>) \o <<Sep>> \o Lit(<<"i", "d">>),
     Lit(<<"a", "t", "h", "l", "e", "t", "e">>) \o <<Sep>> \o Lit(<<"i", "d">>),
     Lit(<<"i", "d">>) >>

DATE_PATTERNS ==
  << Lit(<<"d", "a", "t", "e">>),
     Lit(<<"d", "a", "y">>),
     Lit(<<"t", "r", "a", "i", "n", "i", "n", "g">>) \o <<Sep>> \o Lit(<<"d", "a", "t", "e">>),
     Lit(<<"s", "e", "s", "s", "i", "o", "n">>) \o <<Sep>> \o Lit(<<"d", "a", "t", "e">>) >>

LOAD_PATTERNS ==
  << Lit(<<"l", "o", "a", "d">>),
     Lit(<<"t", "r", "a", "i", "n", "i", "n", "g">>) \o <<Sep>> \o Lit(<<"l", "o", "a", "d">>),
     Lit(<<"s", "r", "p", "e">>),
     Lit(<<"s", "e", "s", "s", "i", "o", "n">>) \o <<Sep>> \o Lit(<<"l", "o", "a", "d">>),
     Lit(<<"w", "o", "r", "k", "l", "o", "a", "d">>),
     Lit(<<"d", "a", "t", "a">>) >>

RPE_PATTERNS ==
  << Lit(<<"r", "p", "e">>),
     Lit(<<"r", "a", "t", "i", "n", "g">>) \o <<Sep>> \o Lit(<<"o", "f">>) \o <<Sep>> \o Lit(<<"p", "e", "r", "c", "e", "i", "v", "e", "d">>) \o <<Sep>> \o Lit(<<"e", "x", "e", "r", "t", "i", "o", "n">>),
     Lit(<<"p", "e", "r", "c", "e", "i", "v", "e", "d">>) \o <<Sep>> \o Lit(<<"e", "x", "e", "r", "t", "i", "o", "n">>) >>

TIME_PATTERNS ==
  << Lit(<<"t", "i", "m", "e">>),
     Lit(<<"t", "i", "m", "e">>) \o <<Sep>> \o <<Opt("(")>> \o Lit(<<"m", "i", "n">>) \o <<Opt("s")>> \o <<Opt(")")>>,
     Lit(<<"d", "u", "r", "a", "t", "i", "o", "n">>),
     Lit(<<"d", "u", "r", "a", "t", "i", "o", "n">>) \o <<Sep>> \o <<Opt("(")>> \o Lit(<<"m", "i", "n">>) \o <<Opt("s")>> \o <<Opt(")")>>,
     Lit(<<"m", "i", "n", "u", "t", "e", "s">>),
     Lit(<<"s", "e", "s", "s", "i", "o", "n">>) \o <<Sep>> \o Lit(<<"t", "i", "m", "e">>),
     Lit(<<"t", "r", "a", "i", "n", "i", "n", "g">>) \o <<Sep>> \o Lit(<<"t", "i", "m", "e">>) >>

\* re.match(pattern, text) for an anchored pattern
RECURSIVE ReMatch(_, _)
ReMatch(pattern, text) ==
  IF pattern = <<>> THEN text = <<>>
  ELSE \/ /\ text # <<>>
          /\ Head(text) \in Head(pattern).chars
          /\ ReMatch(Tail(pattern), Tail(text))
       \/ /\ Head(pattern).opt
          /\ ReMatch(Tail(pattern), text)

\* the inner loop of _match_column for one column
MatchesAny(col, patterns) ==
  LET col_lower == Strip(Lower(col))
  IN  \E k \in 1..Len(patterns) : ReMatch(patterns[k], col_lower)

\* the first pattern of the list with a matching column wins
RECURSIVE match_column_by_pattern(_, _)
match_column_by_pattern(columns, patterns) ==
  IF patterns = <<>> THEN None
  ELSE LET hits == SelectSeq(columns, LAMBDA c : ReMatch(Head(patterns), Strip(Lower(c))))
       IN  IF hits # <<>> THEN Head(hits)
           ELSE match_column_by_pattern(columns, Tail(patterns))

RECURSIVE match_column(_, _)
match_column(columns, patterns) ==
  IF columns = <<>> THEN None
  ELSE IF MatchesAny(Head(columns), patterns) THEN Head(columns)
  ELSE match_column(Tail(columns), patterns)

PLAYER_NAME == <<"p", "l", "a", "y", "e", "r", "_", "n", "a", "m", "e">>
DATE == <<"d", "a", "t", "e">>
DATA == <<"d", "a", "t", "a">>

\* mapping[key] = value
Put(dict, key, value) ==
  [x \in DOMAIN dict \cup {key} |-> IF x = key THEN value ELSE dict[x]]

EmptyDict == [x \in {} |-> None]

\* the sRPE pair tried before the direct load column
detect_columns_srpe_first(columns) ==
  LET player_col == match_column(columns, PLAYER_PATTERNS)
      date_col == match_column(columns, DATE_PATTERNS)
      load_col == match_column(columns, LOAD_PATTERNS)
      rpe_col == match_column(columns, RPE_PATTERNS)
      time_col == match_column(columns, TIME_PATTERNS)
      m1 == IF player_col # None THEN Put(EmptyDict, player_col, PLAYER_NAME) ELSE EmptyDict
      m2 == IF date_col # None THEN Put(m1, date_col, DATE) ELSE m1
      srpe == rpe_col # None /\ time_col # None
  IN  [mapping |-> IF ~srpe /\ load_col # None THEN Put(m2, load_col, DATA) ELSE m2,
       has_srpe_columns |-> srpe,
       rpe_column |-> IF srpe THEN rpe_col ELSE None,
       time_column |-> IF srpe THEN time_col ELSE None]

\* the attributes detect_columns leaves on the mapper
detect_columns(columns) ==
  LET player_col == match_column(columns, PLAYER_PATTERNS)
      date_col == match_column(columns, DATE_PATTERNS)
      load_col == match_column(columns, LOAD_PATTERNS)
      rpe_col == match_column(columns, RPE_PATTERNS)
      time_col == match_column(columns, TIME_PATTERNS)
      m1 == IF player_col # None THEN Put(EmptyDict, player_col, PLAYER_NAME) ELSE EmptyDict
      m2 == IF date_col # None THEN Put(m1, date_col, DATE) ELSE m1
      srpe == load_col = None /\ rpe_col # None /\ time_col # None
  IN  [mapping |-> IF load_col # None THEN Put(m2, load_col, DATA) ELSE m2,
       has_srpe_columns |-> srpe,
       rpe_column |-> IF srpe THEN rpe_col ELSE None,
       time_column |-> IF srpe THEN time_col ELSE None]

\* DataFrame.rename(columns=mapping)
Rename(columns, dict) ==
  [i \in 1..Len(columns) |->
     IF columns[i] \in DOMAIN dict THEN dict[columns[i]] ELSE columns[i]]

\* the positions of the columns labelled name
Labelled(columns, name) == {i \in 1..Len(columns) : columns[i] = name}

\* pd.to_numeric(rpe) * pd.to_numeric(time) for one row
Srpe(rpe, time) ==
  LET rpe_values == ToNumeric(rpe)
      time_values == ToNumeric(time)
  IN  IF IsNa(rpe_values) \/ IsNa(time_values) THEN NaN
      ELSE Num(rpe_values.v * time_values.v)

\* result_df["data"] = values: the column is replaced, or appended
SetData(columns, row, value) ==
  IF Labelled(columns, DATA) # {}
  THEN [i \in 1..Len(row) |-> IF columns[i] = DATA THEN value ELSE row[i]]
  ELSE Append(row, value)

\* the positions result_df[available_cols] selects, in order
RECURSIVE Selected(_, _)
Selected(columns, wanted) ==
  IF wanted = <<>> THEN <<>>
  ELSE SelectSeq([i \in 1..Len(columns) |-> i], LAMBDA i : columns[i] = Head(wanted))
         \o Selected(columns, Tail(wanted))

apply_mapping(columns, rows, dict, srpe, rpe_col, time_col) ==
  LET renamed == Rename(columns, dict)
      derive == srpe /\ rpe_col # None /\ time_col # None
      rpe_at == CHOOSE i \in Labelled(renamed, rpe_col) : TRUE
      time_at == CHOOSE i \in Labelled(renamed, time_col) : TRUE
      columns2 == IF derive /\ Labelled(renamed, DATA) = {} THEN Append(renamed, DATA)
                  ELSE renamed
      rows2 == IF derive
               THEN [r \in 1..Len(rows) |->
                       SetData(renamed, rows[r], Srpe(rows[r][rpe_at], rows[r][time_at]))]
               ELSE rows
      required_cols == <<PLAYER_NAME, DATE, DATA>>
      available_cols == SelectSeq(required_cols, LAMBDA c : Labelled(columns2, c) # {})
      keep == Selected(columns2, available_cols)
  IN  [columns |-> [i \in 1..Len(keep) |-> columns2[keep[i]]],
       rows |-> [r \in 1..Len(rows2) |-> [i \in 1..Len(keep) |-> rows2[r][keep[i]]]]]

NoResult == [columns |-> <<>>, rows |-> <<>>]

DetectColumns ==
  /\ mpc = "new"
  /\ LET d == detect_columns(original_columns)
     IN  /\ mapping' = d.mapping
         /\ has_srpe_columns' = d.has_srpe_columns
         /\ rpe_column' = d.rpe_column
         /\ time_column' = d.time_column
  /\ mpc' = "detected"
  /\ UNCHANGED <<original_columns, table, result, calc_vars, rest_vars>>

ApplyMapping ==
  /\ mpc = "detected"
  /\ result' = apply_mapping(original_columns, table, mapping, has_srpe_columns,
                             rpe_column, time_column)
  /\ mpc' = "applied"
  /\ UNCHANGED <<original_columns, table, mapping, has_srpe_columns, rpe_column,
                 time_column, calc_vars, rest_vars>>

\* bounds of the mapper's input: at most MaxCols distinct column names; a
\* frame of load, RPE and duration columns has at most MaxMapRows rows of
\* raw cells, any other frame is a header without rows
MaxCols == 3
MaxMapRows == 1
ColName == <<"N", "a", "m", "e">>
ColPlayer == <<"P", "l", "a", "y", "e", "r">>
ColDate == <<"D", "a", "t", "e">>
ColLoad == <<" ", "L", "o", "a", "d", " ">>
ColRPE == <<"R", "P", "E">>
ColDuration == <<"D", "u", "r", "a", "t", "i", "o", "n">>
ColTimeMin == <<"T", "i", "m", "e", " ", "(", "m", "i", "n", ")">>
ColNames == <<"N", "a", "m", "e", "s">>
InputNames == {ColName, ColPlayer, PLAYER_NAME, ColDate, ColLoad, DATA, ColRPE,
               ColDuration, ColTimeMin, ColNames}
InputCells == {NaN, Txt, Num(2), Num(3)}

ValueNames == {ColLoad, ColRPE, ColDuration}

\* pd.read_csv never yields two columns of one name
ColumnLists(names) ==
  UNION {{c \in [1..k -> names] : \A i, j \in 1..k : c[i] = c[j] => i = j} :
           k \in 0..MaxCols}

\* a calculator that is never used
IdleCalc ==
  /\ df = <<>>
  /\ cols = BaseCols
  /\ err = "none"
  /\ call = "__init__"
  /\ pc = "idle"

\* a mapper that is never used
IdleMapper ==
  /\ original_columns = <<>>
  /\ table = <<>>
  /\ mapping = EmptyDict
  /\ has_srpe_columns = FALSE
  /\ rpe_column = None
  /\ time_column = None
  /\ result = NoResult
  /\ mpc = "idle"

InitMapper ==
  /\ \/ /\ original_columns \in ColumnLists(InputNames)
        /\ table = <<>>
     \/ /\ original_columns \in ColumnLists(ValueNames)
        /\ \E n \in 1..MaxMapRows :
             table \in [1..n -> [1..Len(original_columns) -> InputCells]]
  /\ mapping = EmptyDict
  /\ has_srpe_columns = FALSE
  /\ rpe_column = None
  /\ time_column = None
  /\ result = NoResult
  /\ mpc = "new"
  /\ IdleCalc
  /\ IdleHandle /\ IdleCombine /\ IdleGraph /\ IdlePair /\ IdleMore

NextMapper == DetectColumns \/ ApplyMapping

SpecMapper == InitMapper /\ [][NextMapper]_vars

(***************************************************************************)
(* The calculator object: one action per public method.  call names the    *)
(* method invoked last and err the exception it raised ("none" when it     *)
(* returned).                                                              *)
(***************************************************************************)
CleanData ==
  /\ df' = clean_data(df)
  /\ cols' = cols
  /\ err' = "none"
  /\ call' = "clean_data"
  /\ UNCHANGED <<mapper_vars, rest_vars>>

FillMissingDates ==
  LET r == fill_missing_dates(df)
  IN  /\ df' = r.df
      /\ cols' = cols
      /\ err' = r.err
      /\ call' = "fill_missing_dates"
      /\ UNCHANGED <<mapper_vars, rest_vars>>

AddShortTermAverage ==
  LET r == add_short_term_average(df)
  IN  /\ df' = r.df
      /\ cols' = cols \cup {"short_term_ave"}
      /\ err' = r.err
      /\ call' = "add_short_term_average"
      /\ UNCHANGED <<mapper_vars, rest_vars>>

AddLongTermAverage ==
  LET r == add_long_term_average(df, "week_index" \in cols)
  IN  /\ df' = r.df
      /\ cols' = cols \cup {"week_index", "long_term_ave"}
      /\ err' = r.err
      /\ call' = "add_long_term_average"
      /\ UNCHANGED <<mapper_vars, rest_vars>>

\* the stage without its two column checks
AddLoadAndQualityUnchecked ==
  /\ call' = "add_load_and_quality"
  /\ UNCHANGED <<mapper_vars, rest_vars>>
  /\ df' = add_load_and_quality(df)
  /\ cols' = cols \cup {"load", "load_quality"}
  /\ err' = "none"

AddLoadAndQuality ==
  /\ call' = "add_load_and_quality"
  /\ UNCHANGED <<mapper_vars, rest_vars>>
  /\ IF "short_term_ave" \notin cols
     THEN /\ err' = "ValueError: short_term_ave column missing"
          /\ UNCHANGED <<df, cols>>
     ELSE IF "long_term_ave" \notin cols
     THEN /\ err' = "ValueError: long_term_ave column missing"
          /\ UNCHANGED <<df, cols>>
     ELSE /\ df' = add_load_and_quality(df)
          /\ cols' = cols \cup {"load", "load_quality"}
          /\ err' = "none"

\* the frames handed to LoadCalculator(df)
InputRows == {MkRow(p, d, x) : p \in Players, d \in {Num(n) : n \in InputDays} \cup {NaN},
                               x \in InputData}

Tables(rows, n) == UNION {[1..k -> rows] : k \in 0..n}

\* the records of player "A" on the days D, in date order, with loads f
RECURSIVE SeriesOf(_, _)
SeriesOf(D, f) ==
  IF D = {} THEN <<>>
  ELSE LET d == MinOf(D)
       IN  <<MkRow("A", Num(d), f[d])>> \o SeriesOf(D \ {d}, f)

SeriesTables(n) ==
  UNION {{SeriesOf(D, f) : f \in [D -> SeriesData]} :
           D \in {E \in SUBSET SeriesDays : Cardinality(E) <= n}}

InitCalc(tables) ==
  /\ df \in tables
  /\ cols = BaseCols
  /\ err = "none"
  /\ call = "__init__"
  /\ IdleMapper
  /\ IdleHandle /\ IdleCombine /\ IdleGraph /\ IdlePair /\ IdleMore

\* process_all: the five stages in order; an exception leaves the pipeline
Then(next) == IF err' = "none" THEN next ELSE "raised"

ProcessAll ==
  \/ pc = "clean_data" /\ CleanData /\ pc' = Then("fill_missing_dates")
  \/ pc = "fill_missing_dates" /\ FillMissingDates /\ pc' = Then("add_short_term_average")
  \/ pc = "add_short_term_average" /\ AddShortTermAverage /\ pc' = Then("add_long_term_average")
  \/ pc = "add_long_term_average" /\ AddLongTermAverage /\ pc' = Then("add_load_and_quality")
  \/ pc = "add_load_and_quality" /\ AddLoadAndQuality /\ pc' = Then("done")

Init == InitCalc(Tables(InputRows, MaxRows) \cup SeriesTables(MaxSeries)) /\ pc = "clean_data"

Next == ProcessAll

Spec == Init /\ [][Next]_vars

\* the methods called one at a time by a client, in any order
AnyOrder ==
  /\ pc = "client"
  /\ pc' = pc
  /\ \/ CleanData
     \/ FillMissingDates
     \/ AddShortTermAverage
     \/ AddLongTermAverage
     \/ AddLoadAndQuality

InitOrder ==
  InitCalc(Tables(InputRows, MaxOrderRows) \cup SeriesTables(MaxOrderSeries)) /\ pc = "client"

SpecOrder == InitOrder /\ [][AnyOrder]_vars

(***************************************************************************)
(* Properties of the pipeline.                                             *)
(***************************************************************************)
Abs(x) == IF x < 0 THEN 0 - x ELSE x

Rows == 1..Len(df)

RECURSIVE SumData(_)
SumData(S) ==
  IF S = {} THEN 0
  ELSE LET j == CHOOSE x \in S : TRUE IN df[j].data.v + SumData(S \ {j})

\* the rows of the player of row i up to and including row i
UpTo(i) == {j \in 1..i : df[j].player_name = df[i].player_name}
NonMissingUpTo(i) == {j \in UpTo(i) : ~IsNa(df[j].data)}
Recent3(i) ==
  {j \in NonMissingUpTo(i) : Cardinality({k \in NonMissingUpTo(i) : k > j}) < 3}

\* C1: each player's rows are in date order, and short_term_ave is missing
\* at positions 0 and 1 and while fewer than 3 non-missing data values have
\* occurred; otherwise it is the mean of the 3 most recent non-missing
\* values, missing days skipped, rounded to 2 decimals.
C1_ShortTermAverage ==
  "short_term_ave" \in cols =>
    \A i \in Rows :
      /\ \A j \in UpTo(i) : df[j].date.v <= df[i].date.v
      /\ IF Cardinality(UpTo(i)) - 1 < 2 \/ Cardinality(NonMissingUpTo(i)) < 3
         THEN IsNa(df[i].short_term_ave)
         ELSE /\ IsNum(df[i].short_term_ave)
              /\ 2 * Abs(3 * df[i].short_term_ave.v - 100 * SumData(Recent3(i))) <= 3

\* a row whose window skips a missing day and leaves an older value out
C1_Witness ==
  /\ "short_term_ave" \in cols
  /\ \E i \in Rows :
        /\ IsNum(df[i].short_term_ave)
        /\ Cardinality(NonMissingUpTo(i)) >= 4
        /\ \E j \in UpTo(i) : IsNa(df[j].data) /\ \E k \in Recent3(i) : k < j

\* the non-missing records of the player of row i in the two weeks before
\* the week of row i
PrevWeeks(i) ==
  {j \in Rows : /\ df[j].player_name = df[i].player_name
                 /\ df[j].week_index.v \in {df[i].week_index.v - 2, df[i].week_index.v - 1}
                 /\ ~IsNa(df[j].data)}

\* C3: long_term_ave is missing in weeks 0 and 1 and when the two weeks
\* before hold no value; otherwise it is the pooled mean of the player's
\* non-missing data of weeks w-2 and w-1, rounded to 2 decimals.
C3_LongTermAverage ==
  "long_term_ave" \in cols =>
    \A i \in Rows :
      IF df[i].week_index.v < 2 \/ PrevWeeks(i) = {}
      THEN IsNa(df[i].long_term_ave)
      ELSE /\ IsNum(df[i].long_term_ave)
           /\ 2 * Abs(Cardinality(PrevWeeks(i)) * df[i].long_term_ave.v
                      - 100 * SumData(PrevWeeks(i))) <= Cardinality(PrevWeeks(i))

\* a week whose two predecessors hold different numbers of values
C3_Witness ==
  /\ "long_term_ave" \in cols
  /\ \E i \in Rows :
        LET n(k) == Cardinality({j \in PrevWeeks(i) : df[j].week_index.v = k})
            w == df[i].week_index.v
        IN  /\ IsNum(df[i].long_term_ave)
            /\ n(w - 2) > 0
            /\ n(w - 1) > n(w - 2)

C5_Load ==
  "load" \in cols =>
    \A i \in Rows :
      LET short == df[i].short_term_ave
          long == df[i].long_term_ave
          load == df[i].load
      IN  IF IsNa(short) \/ IsNa(long) THEN IsNa(load)
          ELSE IF long.v = 0 THEN (IF short.v = 0 THEN IsNa(load) ELSE load.k = "inf")
          ELSE /\ IsNum(load)
               /\ 2 * Abs(long.v * load.v - 10000 * short.v) <= long.v

\* a load that needs its 4 decimals
C5_Witness ==
  /\ "load" \in cols
  /\ \E i \in Rows : IsNum(df[i].load) /\ df[i].load.v % 100 # 0

RowsFor(s, p, d) ==
  {i \in 1..Len(s) : s[i].player_name = p /\ s[i].date = Num(d)}

\* C2: fill_missing_dates on a non-empty cleaned frame leaves every player
\* with exactly one row for each day of [global min, global max] and no row
\* outside it, and a day without an original record has data missing.
C2_OneRowPerDay ==
  [][(call' = "fill_missing_dates" /\ df # <<>>) =>
       LET lo == MinOf(ValidDates(df))
           hi == MaxOf(ValidDates(df))
       IN  /\ PlayersOf(df') = PlayersOf(df)
           /\ \A p \in PlayersOf(df) : \A d \in lo..hi :
                 Cardinality(RowsFor(df', p, d)) = 1
           /\ \A i \in 1..Len(df') :
                 /\ df'[i].date.v \in lo..hi
                 /\ RowsFor(df, df'[i].player_name, df'[i].date.v) = {}
                      => IsNa(df'[i].data)]_vars

(***************************************************************************)
(* Properties of the stages called in any order.                           *)
(***************************************************************************)
\* a frame as clean_data leaves it: numeric data and valid dates
Cleaned(s) == \A i \in 1..Len(s) : s[i].data.k # "str" /\ ~IsNa(s[i].date)

AveragesPresent == {"short_term_ave", "long_term_ave"} \subseteq cols

\* C7: add_load_and_quality on a frame without short_term_ave, or without
\* long_term_ave, raises ValueError naming the missing column and leaves the
\* frame as it was, with no load or load_quality column.
C7_PreconditionError ==
  [][(call' = "add_load_and_quality" /\ ~AveragesPresent) =>
       /\ err' = IF "short_term_ave" \notin cols
                 THEN "ValueError: short_term_ave column missing"
                 ELSE "ValueError: long_term_ave column missing"
       /\ df' = df
       /\ cols' = cols
       /\ "load" \notin cols'
       /\ "load_quality" \notin cols']_vars

\* the call was refused for long_term_ave on a frame that has short_term_ave
C7_Witness ==
  /\ call = "add_load_and_quality"
  /\ err = "ValueError: long_term_ave column missing"
  /\ "short_term_ave" \in cols
  /\ df # <<>>

\* C8 as stated: a stage invoked before the columns it depends on exist
\* fails with a precondition error instead of computing a result.
C8_StrictOrder ==
  [][/\ (call' = "add_long_term_average" /\ "week_index" \notin cols) => err' # "none"
     /\ (call' = "add_load_and_quality" /\ ~AveragesPresent) => err' # "none"]_vars

\* C8 as amended: only add_load_and_quality checks for the columns it
\* depends on.  add_long_term_average on a frame without week_index assigns
\* week_index itself and computes long_term_ave, and on a cleaned frame
\* clean_data, fill_missing_dates and the two average stages return
\* normally in whatever order they are called.
C8_OnlyLoadChecks ==
  [][/\ (call' = "add_load_and_quality" /\ ~AveragesPresent) =>
          (err' # "none" /\ df' = df /\ cols' = cols)
     /\ (call' = "add_load_and_quality" /\ AveragesPresent) => err' = "none"
     /\ (call' = "add_long_term_average" /\ "week_index" \notin cols /\ Cleaned(df)) =>
          /\ err' = "none"
          /\ {"week_index", "long_term_ave"} \subseteq cols'
          /\ \A i \in 1..Len(df') : IsNum(df'[i].week_index)
          /\ \A i \in 1..Len(df') :
                IsNum(df'[i].long_term_ave) =>
                  \E j \in 1..Len(df') :
                    /\ df'[j].player_name = df'[i].player_name
                    /\ df'[j].week_index.v \in {df'[i].week_index.v - 2,
                                                 df'[i].week_index.v - 1}
     /\ (call' \in {"clean_data", "fill_missing_dates", "add_short_term_average",
                    "add_long_term_average"} /\ Cleaned(df)) => err' = "none"]_vars

\* add_long_term_average returned normally as the first stage after
\* clean_data, on a frame with a value to average
C8_Witness ==
  /\ call = "add_long_term_average"
  /\ err = "none"
  /\ "short_term_ave" \notin cols
  /\ \E i \in Rows : IsNum(df[i].long_term_ave)

(***************************************************************************)
(* Properties of the column mapper.                                        *)
(***************************************************************************)
\* the input names of each pattern family
PlayerNames == {ColName, ColPlayer, PLAYER_NAME}
DateNames == {ColDate}
LoadNames == {ColLoad, DATA}
RpeNames == {ColRPE}
TimeNames == {ColDuration, ColTimeMin}

\* the leftmost column of the input that belongs to the family, or None
Leftmost(family) ==
  LET at == {i \in 1..Len(original_columns) : original_columns[i] \in family}
  IN  IF at = {} THEN None
      ELSE original_columns[CHOOSE i \in at : \A j \in at : i <= j]

\* the columns mapped to a canonical name are exactly the given one
MappedTo(canonical, col) ==
  {c \in DOMAIN mapping : mapping[c] = canonical} = IF col = None THEN {} ELSE {col}

\* C9: for each family the detected column is the leftmost column of the
\* input whose lower-cased, trimmed name matches a pattern of the family,
\* wherever that pattern sits in the list; nothing is detected when no
\* column matches.
C9_FirstMatchWins ==
  mpc \in {"detected", "applied"} =>
    /\ MappedTo(PLAYER_NAME, Leftmost(PlayerNames))
    /\ MappedTo(DATE, Leftmost(DateNames))
    /\ MappedTo(DATA, Leftmost(LoadNames))
    /\ has_srpe_columns =>
         /\ rpe_column = Leftmost(RpeNames)
         /\ time_column = Leftmost(TimeNames)
    /\ (Leftmost(LoadNames) = None /\ Leftmost(RpeNames) # None
          /\ Leftmost(TimeNames) # None) => has_srpe_columns

\* "Name" stands left of "Player", whose pattern comes earlier in the list
C9_Witness ==
  /\ mpc = "detected"
  /\ \E i, j \in 1..Len(original_columns) :
        /\ i < j
        /\ original_columns[i] = ColName
        /\ original_columns[j] = ColPlayer
  /\ ColName \in DOMAIN mapping
  /\ mapping[ColName] = PLAYER_NAME

\* the position of a column of the input
At(col) == CHOOSE i \in 1..Len(original_columns) : original_columns[i] = col

\* the product of two raw cells, missing unless both are numbers
Product(a, b) == IF IsNum(a) /\ IsNum(b) THEN Num(a.v * b.v) ELSE NaN

DataColumns == {i \in 1..Len(result.columns) : result.columns[i] = DATA}

\* C10: a detected load column is renamed to data and has_srpe_columns
\* stays false even beside RPE and duration columns; else with both an RPE
\* and a duration column has_srpe_columns is true, rpe_column and
\* time_column name them and data is their row-wise product; else the
\* output has no data column and has_srpe_columns is false.
C10_LoadPriority ==
  mpc = "applied" =>
    LET load_col == Leftmost(LoadNames)
        rpe_col == Leftmost(RpeNames)
        time_col == Leftmost(TimeNames)
    IN  IF load_col # None
        THEN /\ load_col \in DOMAIN mapping /\ mapping[load_col] = DATA
             /\ ~has_srpe_columns
             /\ rpe_column = None /\ time_column = None
             /\ \E i \in DataColumns :
                   \A r \in 1..Len(table) : result.rows[r][i] = table[r][At(load_col)]
        ELSE IF rpe_col # None /\ time_col # None
        THEN /\ has_srpe_columns
             /\ rpe_column = rpe_col /\ time_column = time_col
             /\ Cardinality(DataColumns) = 1
             /\ \A i \in DataColumns : \A r \in 1..Len(table) :
                   result.rows[r][i] = Product(table[r][At(rpe_col)], table[r][At(time_col)])
        ELSE /\ ~has_srpe_columns
             /\ DataColumns = {}

\* data derived as RPE x duration = 2 x 3
C10_Witness ==
  /\ mpc = "applied"
  /\ has_srpe_columns
  /\ \E i \in DataColumns : \E r \in 1..Len(table) :
        /\ result.rows[r][i] = Num(6)
        /\ table[r][At(rpe_column)] = Num(2)
        /\ table[r][At(time_column)] = Num(3)

(***************************************************************************)
(* DataFrameHandle (agent_state.py).  A frame is a record                  *)
(*   [kind, columns, rows, index]                                          *)
(* kind is the class of the object, rows hold one cell per column, and     *)
(* index holds the row labels and whether they form a RangeIndex (polars   *)
(* has no index: its frames carry the default one).  The cache is a        *)
(* function from cache file paths to the Arrow tables stored there.        *)
(***************************************************************************)
\* the missing value of an Arrow or polars column
Null == [k |-> "null", v |-> 0]

\* the result of a call that has not been made
NotCalled == [raised |-> "not called"]

\* the sessions that commit to the shared cache directory
Sessions == {"s1", "s2"}

\* Python's ordering of the source identifiers
SourceRank(s) == CASE s = "a" -> 1 [] s = "ab" -> 2 [] s = "b" -> 3 [] OTHER -> 4

RECURSIVE InsertSource(_, _)
InsertSource(x, s) ==
  IF s = <<>> THEN <<x>>
  ELSE IF SourceRank(x) < SourceRank(Head(s)) THEN <<x>> \o s
  ELSE <<Head(s)>> \o InsertSource(x, Tail(s))

\* the sources kept in the order they were passed
sources_as_passed(s) == s

\* sorted(sources)
RECURSIVE Sorted(_)
Sorted(s) ==
  IF s = <<>> THEN <<>>
  ELSE InsertSource(s[Len(s)], Sorted(SubSeq(s, 1, Len(s) - 1)))

\* the bytes fed to the hasher: hasher.update(x) for each x of the list
RECURSIVE Updates(_)
Updates(s) == IF s = <<>> THEN "" ELSE Head(s) \o Updates(Tail(s))

\* _generate_uid: the digest stands for the bytes it was computed from
generate_uid(sources, processing_fingerprints) ==
  [sha256 |-> Updates(sources) \o Updates(processing_fingerprints)]

\* Path(text): the components between the separators, empty ones dropped
RECURSIVE PathParts(_, _)
PathParts(text, part) ==
  IF text = <<>> THEN (IF part = <<>> THEN <<>> ELSE <<part>>)
  ELSE IF Head(text) = "/"
  THEN (IF part = <<>> THEN <<>> ELSE <<part>>) \o PathParts(Tail(text), <<>>)
  ELSE PathParts(Tail(text), Append(part, Head(text)))

Path(text) == PathParts(text, <<>>)

\* str(path)
RECURSIVE PathStr(_)
PathStr(path) ==
  IF path = <<>> THEN <<>>
  ELSE IF Len(path) = 1 THEN Head(path)
  ELSE Head(path) \o <<"/">> \o PathStr(Tail(path))

\* self._cache_dir / f"{self.uid}.arrow"
CachePath(cache_dir, uid) == [parent |-> cache_dir, name |-> uid]

INDEX_LEVEL_0 == <<"_", "_", "i", "n", "d", "e", "x", "_", "l", "e", "v", "e", "l", "_", "0", "_", "_">>

\* pd.RangeIndex(n)
RangeIndex(n) == [range |-> TRUE, labels |-> [r \in 1..n |-> r - 1]]

\* any other index with the given labels
LabelIndex(labels) == [range |-> FALSE, labels |-> labels]

Shape(f) == <<Len(f.rows), Len(f.columns)>>

Column(f, i) == {f.rows[r][i].k : r \in 1..Len(f.rows)}

\* Table.from_pandas refuses duplicate column names and object columns that
\* mix numbers and strings
FromPandasRaises(f) ==
  IF \E i, j \in 1..Len(f.columns) : i # j /\ f.columns[i] = f.columns[j]
  THEN "ValueError"
  ELSE IF \E i \in 1..Len(f.columns) : {"num", "str"} \subseteq Column(f, i)
  THEN "ArrowInvalid"
  ELSE "none"

ArrowCell(c) == IF IsNa(c) THEN Null ELSE c

\* Table.from_pandas(df, preserve_index=None): a RangeIndex goes into the
\* metadata, any other index is stored as a further column
FromPandas(f) ==
  [columns |-> IF f.index.range THEN f.columns ELSE Append(f.columns, INDEX_LEVEL_0),
   rows |-> [r \in 1..Len(f.rows) |->
               LET cells == [i \in 1..Len(f.columns) |-> ArrowCell(f.rows[r][i])]
               IN  IF f.index.range THEN cells ELSE Append(cells, Num(f.index.labels[r]))],
   index_columns |-> IF f.index.range THEN 0 ELSE 1]

\* polars.DataFrame.to_arrow()
ToArrow(f) == [columns |-> f.columns, rows |-> f.rows, index_columns |-> 0]

PandasCell(c) == IF c = Null THEN NaN ELSE c

\* feather.read_feather: Table.to_pandas restores the index the metadata names
ReadFeather(t) ==
  LET n == Len(t.columns) - t.index_columns
  IN  [kind |-> "pandas",
       columns |-> SubSeq(t.columns, 1, n),
       rows |-> [r \in 1..Len(t.rows) |-> [i \in 1..n |-> PandasCell(t.rows[r][i])]],
       index |-> IF t.index_columns = 0 THEN RangeIndex(Len(t.rows))
                 ELSE LabelIndex([r \in 1..Len(t.rows) |-> t.rows[r][n + 1].v])]

\* pl.read_ipc: every column of the file
ReadIpc(t) ==
  [kind |-> "polars", columns |-> t.columns, rows |-> t.rows,
   index |-> RangeIndex(Len(t.rows))]

Lazy(f) == [f EXCEPT !.kind = "polars_lazy"]

\* DataFrameHandle(dataframe, sources, processing_fingerprints, cache_dir)
\* against the cache directory store: the exception raised, or the handle
\* and the cache after _save
DataFrameHandle(dataframe, sources, processing_fingerprints, cache_dir, store) ==
  LET sorted == Sorted(sources)
      df_type == IF dataframe.kind = "pandas" THEN "pandas" ELSE "polars"
      uid == generate_uid(sorted, processing_fingerprints)
      dir == Path(cache_dir)
      raises == IF dataframe.kind \notin {"pandas", "polars", "polars_lazy"} THEN "TypeError"
                ELSE IF df_type = "pandas" THEN FromPandasRaises(dataframe)
                ELSE "none"
      data_to_save == IF df_type = "polars" THEN ToArrow(dataframe) ELSE FromPandas(dataframe)
  IN  IF raises # "none" THEN [raised |-> raises, cache |-> store]
      ELSE [raised |-> "none",
            cache |-> Put(store, CachePath(dir, uid), data_to_save),
            handle |-> [uid |-> uid,
                        df_type |-> df_type,
                        sources |-> sorted,
                        processing_fingerprints |-> processing_fingerprints,
                        shape |-> Shape(dataframe),
                        columns |-> dataframe.columns,
                        cache_dir |-> dir,
                        cache_path |-> CachePath(dir, uid),
                        metadata |-> <<>>]]

valid_formats == {"pandas", "polars", "polars_lazy"}

\* a load that answers a missing file or an unknown format with an empty frame
load_or_empty(h, format, store) ==
  LET output_format == IF format \in {"None", ""} THEN h.df_type ELSE format
      empty == [kind |-> "pandas", columns |-> <<>>, rows |-> <<>>, index |-> RangeIndex(0)]
  IN  IF h.cache_path \notin DOMAIN store \/ output_format \notin valid_formats
      THEN [raised |-> "none", table |-> empty]
      ELSE IF output_format = "pandas"
      THEN [raised |-> "none", table |-> ReadFeather(store[h.cache_path])]
      ELSE IF output_format = "polars_lazy"
      THEN [raised |-> "none", table |-> Lazy(ReadIpc(store[h.cache_path]))]
      ELSE [raised |-> "none", table |-> ReadIpc(store[h.cache_path])]

\* DataFrameHandle.load(format); "None" is the argument None
load(h, format, store) ==
  LET output_format == IF format \in {"None", ""} THEN h.df_type ELSE format
  IN  IF h.cache_path \notin DOMAIN store THEN [raised |-> "FileNotFoundError"]
      ELSE IF output_format \notin valid_formats
      THEN [raised |-> "ValueError", message |-> valid_formats]
      ELSE IF output_format = "pandas"
      THEN [raised |-> "none", table |-> ReadFeather(store[h.cache_path])]
      ELSE IF output_format = "polars_lazy"
      THEN [raised |-> "none", table |-> Lazy(ReadIpc(store[h.cache_path]))]
      ELSE [raised |-> "none", table |-> ReadIpc(store[h.cache_path])]

\* __getstate__ / to_dict
to_dict(h) ==
  [uid |-> h.uid,
   df_type |-> h.df_type,
   sources |-> h.sources,
   processing_fingerprints |-> h.processing_fingerprints,
   shape |-> h.shape,
   columns |-> h.columns,
   cache_dir |-> PathStr(h.cache_dir)]

\* a from_dict that derives the uid again, from the sources alone
from_dict_rederived(data) ==
  LET uid == generate_uid(data.sources, <<>>)
  IN  [uid |-> uid,
       df_type |-> data.df_type,
       sources |-> data.sources,
       processing_fingerprints |-> data.processing_fingerprints,
       shape |-> data.shape,
       columns |-> data.columns,
       cache_dir |-> Path(data.cache_dir),
       cache_path |-> CachePath(Path(data.cache_dir), uid),
       metadata |-> <<>>]

\* __setstate__ / from_dict
from_dict(data) ==
  [uid |-> data.uid,
   df_type |-> data.df_type,
   sources |-> data.sources,
   processing_fingerprints |-> data.processing_fingerprints,
   shape |-> data.shape,
   columns |-> data.columns,
   cache_dir |-> Path(data.cache_dir),
   cache_path |-> CachePath(Path(data.cache_dir), data.uid),
   metadata |-> <<>>]

\* bound of the committed frames: at most MaxFrameRows rows
MaxFrameRows == 1
FrameColumns == <<PLAYER_NAME, DATA>>
FrameRows == {<<Txt, Num(3)>>, <<NaN, Txt>>}

\* a filtered frame keeps the labels of the rows it kept
Filtered(n) == LabelIndex([r \in 1..n |-> 2 * r])

PandasFrames ==
  UNION {{[kind |-> "pandas", columns |-> FrameColumns, rows |-> rows, index |-> index] :
            index \in {RangeIndex(Len(rows)), Filtered(Len(rows))}} :
           rows \in Tables(FrameRows, MaxFrameRows)}

\* polars columns are typed, and their missing value is null
PolarsFrames ==
  {[kind |-> kind, columns |-> f.columns,
    rows |-> [r \in 1..Len(f.rows) |-> [i \in 1..Len(f.columns) |-> ArrowCell(f.rows[r][i])]],
    index |-> f.index] :
     kind \in {"polars", "polars_lazy"},
     f \in {g \in PandasFrames : g.index.range /\ FromPandasRaises(g) = "none"}}

\* a frame with two columns of one name, and an object that is no frame
OtherFrames ==
  {[kind |-> "pandas", columns |-> <<DATA, DATA>>, rows |-> <<>>, index |-> RangeIndex(0)],
   [kind |-> "list", columns |-> <<>>, rows |-> <<>>, index |-> RangeIndex(0)]}

DefaultFrame ==
  [kind |-> "pandas", columns |-> FrameColumns, rows |-> <<<<Txt, Num(3)>>>>,
   index |-> RangeIndex(1)]

SourceLists == {<<"a", "b">>, <<"b", "a">>, <<"a", "b", "a">>, <<"ab">>}
FingerprintLists == {<<"ingest">>, <<"ingest", "column_mapping">>}
CacheDirs == {<<"c", "/">>, <<"d">>}

\* the arguments of a commit: any frame under one key, or one frame under
\* any key
CommitCalls ==
  {[dataframe |-> f, sources |-> <<"a">>, processing_fingerprints |-> <<"ingest">>,
    cache_dir |-> <<"c", "/">>] : f \in PandasFrames \cup PolarsFrames \cup OtherFrames}
  \cup
  {[dataframe |-> DefaultFrame, sources |-> s, processing_fingerprints |-> p,
    cache_dir |-> d] : s \in SourceLists, p \in FingerprintLists, d \in CacheDirs}

Formats == {"pandas", "polars", "polars_lazy", "csv", "", "None"}

\* a session commits a frame; the client's earlier results are dropped
Commit(s) ==
  /\ handles[s] = NotCalled
  /\ \E c \in CommitCalls :
       LET r == DataFrameHandle(c.dataframe, c.sources, c.processing_fingerprints,
                                c.cache_dir, cache)
       IN  /\ frames' = [frames EXCEPT ![s] = c]
           /\ handles' = [handles EXCEPT ![s] =
                            IF r.raised = "none" THEN [raised |-> "none", handle |-> r.handle]
                            ELSE [raised |-> r.raised]]
           /\ cache' = r.cache
  /\ loaded' = NotCalled
  /\ serialized' = NotCalled
  /\ restored' = NotCalled
  /\ UNCHANGED <<calc_vars, mapper_vars, combine_vars, graph_vars, pair, more_vars>>

Load(s, format) ==
  /\ handles[s].raised = "none"
  /\ loaded' = [of |-> s, format |-> format] @@ load(handles[s].handle, format, cache)
  /\ serialized' = NotCalled
  /\ restored' = NotCalled
  /\ UNCHANGED <<cache, frames, handles, calc_vars, mapper_vars, combine_vars, graph_vars, pair, more_vars>>

ToDict(s) ==
  /\ handles[s].raised = "none"
  /\ serialized' = [raised |-> "none", of |-> s, data |-> to_dict(handles[s].handle)]
  /\ loaded' = NotCalled
  /\ restored' = NotCalled
  /\ UNCHANGED <<cache, frames, handles, calc_vars, mapper_vars, combine_vars, graph_vars, pair, more_vars>>

FromDict ==
  /\ serialized.raised = "none"
  /\ restored = NotCalled
  /\ restored' = [raised |-> "none", of |-> serialized.of, handle |-> from_dict(serialized.data)]
  /\ UNCHANGED <<cache, frames, handles, loaded, serialized, calc_vars, mapper_vars,
                 combine_vars, graph_vars, pair, more_vars>>

\* a cache file removed from outside
Evict ==
  /\ \E path \in DOMAIN cache : cache' = [p \in DOMAIN cache \ {path} |-> cache[p]]
  /\ UNCHANGED <<frames, handles, loaded, serialized, restored, calc_vars, mapper_vars,
                 combine_vars, graph_vars, pair, more_vars>>

InitHandle ==
  /\ cache = <<>>
  /\ frames = [s \in Sessions |-> NotCalled]
  /\ handles = [s \in Sessions |-> NotCalled]
  /\ loaded = NotCalled
  /\ serialized = NotCalled
  /\ restored = NotCalled
  /\ IdleCalc /\ IdleMapper /\ IdleCombine /\ IdleGraph /\ IdlePair /\ IdleMore

NextHandle ==
  \/ \E s \in Sessions : Commit(s)
  \/ \E s \in Sessions, format \in Formats : Load(s, format)
  \/ \E s \in Sessions : ToDict(s)
  \/ FromDict
  \/ Evict

SpecHandle == InitHandle /\ [][NextHandle]_vars

(***************************************************************************)
(* combine_multiple_files (utils/column_mapper.py).  files maps a path to  *)
(* what pd.read_csv makes of it: a frame [columns, rows], or an error.     *)
(***************************************************************************)
\* a string cell with its text
Str(x) == [k |-> "str", v |-> x]

SOURCE_FILE == <<"_", "s", "o", "u", "r", "c", "e", "_", "f", "i", "l", "e">>

\* a path pd.read_csv cannot read or parse
Unreadable == [readable |-> FALSE, columns |-> <<>>, rows |-> <<>>]

CsvFile(columns, rows) == [readable |-> TRUE, columns |-> columns, rows |-> rows]

\* ColumnMapper(df).detect_columns(); apply_mapping()
Standardize(file) ==
  LET d == detect_columns(file.columns)
  IN  apply_mapping(file.columns, file.rows, d.mapping, d.has_srpe_columns,
                    d.rpe_column, d.time_column)

get_mapping_report(file) ==
  LET d == detect_columns(file.columns)
  IN  [original_columns |-> file.columns,
       mapping |-> d.mapping,
       has_srpe_columns |-> d.has_srpe_columns,
       rpe_column |-> d.rpe_column,
       time_column |-> d.time_column,
       standardized_columns |-> <<PLAYER_NAME, DATE, DATA>>]

\* standardized_df["_source_file"] = path
Tagged(frame, path) ==
  [columns |-> Append(frame.columns, SOURCE_FILE),
   rows |-> [r \in 1..Len(frame.rows) |-> Append(frame.rows[r], Str(path))]]

\* the list dfs after the loop over file_paths
RECURSIVE MappedFrames(_, _)
MappedFrames(paths, disk) ==
  IF paths = <<>> THEN <<>>
  ELSE (IF disk[Head(paths)].readable
        THEN <<Tagged(Standardize(disk[Head(paths)]), Head(paths))>>
        ELSE <<>>) \o MappedFrames(Tail(paths), disk)

\* the list reports after the loop over file_paths
Reports(paths, disk) ==
  [i \in 1..Len(paths) |->
     IF disk[paths[i]].readable
     THEN [file |-> paths[i]] @@ get_mapping_report(disk[paths[i]])
     ELSE [file |-> paths[i], error |-> "read_csv"]]

HasDuplicates(columns) ==
  \E i, j \in 1..Len(columns) : i # j /\ columns[i] = columns[j]

\* Index.unique(): the labels in order of first appearance
RECURSIVE Unique(_)
Unique(columns) ==
  IF columns = <<>> THEN <<>>
  ELSE LET rest == Unique(SubSeq(columns, 1, Len(columns) - 1))
           last == columns[Len(columns)]
       IN  IF \E i \in 1..Len(rest) : rest[i] = last THEN rest ELSE Append(rest, last)

RECURSIVE AllColumns(_)
AllColumns(dfs) == IF dfs = <<>> THEN <<>> ELSE Head(dfs).columns \o AllColumns(Tail(dfs))

RECURSIVE AllRows(_)
AllRows(dfs) == IF dfs = <<>> THEN <<>> ELSE Head(dfs).rows \o AllRows(Tail(dfs))

\* the frame brought to the combined columns, absent ones filled with NaN
Reindexed(frame, columns) ==
  [columns |-> columns,
   rows |-> [r \in 1..Len(frame.rows) |->
               [i \in 1..Len(columns) |->
                  IF Labelled(frame.columns, columns[i]) = {} THEN NaN
                  ELSE frame.rows[r][CHOOSE j \in Labelled(frame.columns, columns[i]) : TRUE]]]]

\* pd.concat(dfs, ignore_index=True) of a non-empty list: frames with equal
\* columns are stacked; otherwise each is reindexed to the union of the
\* columns, which a frame with a repeated column name cannot be
concat(dfs) ==
  IF \A i \in 1..Len(dfs) : dfs[i].columns = dfs[1].columns
  THEN [raised |-> "none", columns |-> dfs[1].columns, rows |-> AllRows(dfs)]
  ELSE IF \E i \in 1..Len(dfs) : HasDuplicates(dfs[i].columns)
  THEN [raised |-> "InvalidIndexError"]
  ELSE LET columns == Unique(AllColumns(dfs))
       IN  [raised |-> "none", columns |-> columns,
            rows |-> AllRows([i \in 1..Len(dfs) |-> Reindexed(dfs[i], columns)])]

\* combine_multiple_files(file_paths): the frame and the reports returned,
\* or the exception that leaves the function
combine_multiple_files(paths, disk) ==
  LET dfs == MappedFrames(paths, disk)
  IN  IF dfs = <<>>
      THEN [raised |-> "none", columns |-> <<PLAYER_NAME, DATE, DATA>>, rows |-> <<>>,
            reports |-> Reports(paths, disk)]
      ELSE LET stacked == concat(dfs)
           IN  IF stacked.raised # "none" THEN [raised |-> stacked.raised]
               ELSE [raised |-> "none", columns |-> stacked.columns,
                     rows |-> stacked.rows, reports |-> Reports(paths, disk)]

\* bounds of a batch: at most MaxFiles paths, files of at most MaxFileRows rows
MaxFiles == 2
MaxFileRows == 2
Paths == {"a", "b"}
HeaderNames == {ColName, PLAYER_NAME, ColLoad}
FileRows == {<<Str("A"), Num(1)>>, <<Str("A"), Num(3)>>}

\* a header of one column or more without rows (a file without columns does
\* not parse), or player and load columns with rows
CsvFiles ==
  {Unreadable}
  \cup {CsvFile(columns, <<>>) : columns \in ColumnLists(HeaderNames) \ {<<>>}}
  \cup {CsvFile(<<ColName, ColLoad>>, rows) : rows \in Tables(FileRows, MaxFileRows) \ {<<>>}}

CombineMultipleFiles ==
  /\ combined = NotCalled
  /\ combined' = combine_multiple_files(file_paths, files)
  /\ UNCHANGED <<file_paths, files, calc_vars, mapper_vars, handle_vars, graph_vars, pair, more_vars>>

InitCombine ==
  /\ file_paths \in Tables(Paths, MaxFiles)
  /\ files \in [Paths -> CsvFiles]
  /\ combined = NotCalled
  /\ IdleCalc /\ IdleMapper /\ IdleHandle /\ IdleGraph /\ IdlePair /\ IdleMore

SpecCombine == InitCombine /\ [][CombineMultipleFiles]_vars

(***************************************************************************)
(* The workflow graph (agent_graph.py) and its nodes (nodes/).  A run      *)
(* starts from create_initial_state and visits data_ingest, data_process,  *)
(* visualization and report_generation, each followed by its routing       *)
(* function.  files is the upload directory, cache the handle cache and    *)
(* outputs the outputs directory.                                          *)
(***************************************************************************)
SHORT_TERM_AVE == <<"s", "h", "o", "r", "t", "_", "t", "e", "r", "m", "_", "a", "v", "e">>
WEEK_INDEX == <<"w", "e", "e", "k", "_", "i", "n", "d", "e", "x">>
LONG_TERM_AVE == <<"l", "o", "n", "g", "_", "t", "e", "r", "m", "_", "a", "v", "e">>
LOAD == <<"l", "o", "a", "d">>
LOAD_QUALITY == <<"l", "o", "a", "d", "_", "q", "u", "a", "l", "i", "t", "y">>

\* a cell holding the text of the date of day d
Day(d) == [k |-> "date", v |-> d]

\* pd.to_datetime(errors="coerce") of a text or missing cell
to_datetime(c) == IF c.k = "date" THEN Num(c.v) ELSE NaN

\* astype(str) of a text or missing cell
astype_str(c) == IF IsNa(c) THEN "nan" ELSE c.v

\* LoadCalculator(df): the rows the calculator starts from
LoadCalculator(f) ==
  LET at(name) == CHOOSE i \in Labelled(f.columns, name) : TRUE
  IN  [r \in 1..Len(f.rows) |->
         MkRow(astype_str(f.rows[r][at(PLAYER_NAME)]),
               to_datetime(f.rows[r][at(DATE)]),
               f.rows[r][at(DATA)])]

\* process_all: the five stages in order, left at the first exception
process_all(s) ==
  LET filled == fill_missing_dates(clean_data(s))
      short == add_short_term_average(filled.df)
      long == add_long_term_average(short.df, FALSE)
  IN  IF filled.err # "none" THEN filled
      ELSE IF short.err # "none" THEN short
      ELSE IF long.err # "none" THEN long
      ELSE [df |-> add_load_and_quality(long.df), err |-> "none"]

\* get_result(): the calculator's rows as a pandas frame with the given index
get_result(s, index) ==
  [kind |-> "pandas",
   columns |-> <<PLAYER_NAME, DATE, DATA, SHORT_TERM_AVE, WEEK_INDEX, LONG_TERM_AVE,
                 LOAD, LOAD_QUALITY>>,
   rows |-> [r \in 1..Len(s) |->
               <<Str(s[r].player_name), s[r].date, s[r].data, s[r].short_term_ave,
                 s[r].week_index, s[r].long_term_ave, s[r].load,
                 IF s[r].load_quality = "None" THEN NaN ELSE Str(s[r].load_quality)>>],
   index |-> index]

\* the index of the processed frame: sort_values keeps the labels 0..n-1,
\* as a RangeIndex or as a plain index depending on the pandas release
ResultIndexes(n) == {RangeIndex(n), LabelIndex([r \in 1..n |-> r - 1])}

\* get_summary_stats() of a frame with the canonical columns
get_summary_stats(f) ==
  LET at(name) == CHOOSE i \in Labelled(f.columns, name) : TRUE
  IN  [total_records |-> Len(f.rows),
       unique_players |-> Cardinality({f.rows[r][at(PLAYER_NAME)] : r \in 1..Len(f.rows)}),
       missing_data_count |->
         Cardinality({r \in 1..Len(f.rows) : IsNa(f.rows[r][at(DATA)])})]

\* the outcomes of the two spreadsheet writes: the formatted one, and the
\* plain one attempted after the formatted one failed
SpreadsheetWriters ==
  {[formatted |-> "none", plain |-> "none"],
   [formatted |-> "ModuleNotFoundError", plain |-> "none"],
   [formatted |-> "ValueError", plain |-> "ValueError"]}

\* save_processed_data(csv_path, excel_path): the exception that leaves it,
\* if any, and the outputs directory afterwards
save_processed_data(s, csv_path, excel_path, writer, out) ==
  LET csv == Put(out, csv_path, [format |-> "csv", colored |-> FALSE, rows |-> s])
  IN  IF writer.formatted = "none"
      THEN [raised |-> "none",
            outputs |-> Put(csv, excel_path, [format |-> "xlsx", colored |-> TRUE, rows |-> s])]
      ELSE IF writer.plain = "none"
      THEN [raised |-> "none",
            outputs |-> Put(csv, excel_path, [format |-> "xlsx", colored |-> FALSE, rows |-> s])]
      ELSE [raised |-> writer.plain, outputs |-> csv]

\* RUNTIME_CACHE_DIR / "dataframes"
DEFAULT_CACHE_DIR == <<"d", "a", "t", "a", "f", "r", "a", "m", "e", "s">>

create_initial_state(session_id, uploaded_files) ==
  [session_id |-> session_id,
   uploaded_files |-> uploaded_files,
   raw_data |-> None,
   column_mapping |-> <<>>,
   has_srpe_columns |-> FALSE,
   processed_data |-> None,
   visualization_files |-> <<>>,
   report_markdown |-> None,
   processed_csv_path |-> None,
   processed_excel_path |-> None,
   status |-> "pending",
   current_stage |-> None,
   error_message |-> None,
   token_usage |-> <<>>]

\* the state after a node returned the updates u
Updated(s, u) == [key \in DOMAIN s |-> IF key \in DOMAIN u THEN u[key] ELSE s[key]]

\* the updates of a node that failed
Failed(stage, message) ==
  [status |-> "failed", current_stage |-> stage, error_message |-> message]

\* DataFrame.empty
Empty(f) == f.rows = <<>> \/ f.columns = <<>>

Repr(name) ==
  CASE name = PLAYER_NAME -> "'player_name'"
    [] name = DATE -> "'date'"
    [] name = DATA -> "'data'"

\* f"Missing required columns: {missing}. ..."
MissingMessage(columns) ==
  LET has(name) == Labelled(columns, name) # {}
  IN  "Missing required columns: {"
        \o (IF has(PLAYER_NAME) THEN "" ELSE Repr(PLAYER_NAME))
        \o (IF has(DATE) THEN "" ELSE Repr(DATE))
        \o (IF has(DATA) THEN "" ELSE Repr(DATA))
        \o "}. Please ensure your data has player identifier, date, and load (or RPE + Time) columns."

\* the frame a mapper or the batch returned, as the pandas frame it is
Frame(t) ==
  [kind |-> "pandas", columns |-> t.columns, rows |-> t.rows,
   index |-> RangeIndex(Len(t.rows))]

ColumnSet(columns) == {columns[i] : i \in 1..Len(columns)}

\* what data_ingest_node returns when a step of it raises e
IngestError(e) == Failed("data_ingest", "Data ingestion error: " \o e)

\* the single file of an upload, read and standardized
IngestOne(file) ==
  IF ~file.readable THEN [raised |-> "ParserError"]
  ELSE [raised |-> "none",
        standardized_df |-> Standardize(file),
        mapping_report |-> get_mapping_report(file),
        has_srpe |-> detect_columns(file.columns).has_srpe_columns]

\* the files of a batch, combined
IngestBatch(batch) ==
  IF batch.raised # "none" THEN [raised |-> batch.raised]
  ELSE [raised |-> "none",
        standardized_df |-> [columns |-> batch.columns, rows |-> batch.rows],
        mapping_report |-> [files |-> batch.reports],
        has_srpe |-> \E i \in 1..Len(batch.reports) :
                       /\ "error" \notin DOMAIN batch.reports[i]
                       /\ batch.reports[i].has_srpe_columns]

\* data_ingest_node from the commit of the raw frame on
IngestCommitted(read, store, raw_handle) ==
  IF raw_handle.raised # "none"
  THEN [update |-> IngestError(raw_handle.raised), cache |-> store]
  ELSE [update |-> [raw_data |-> raw_handle.handle,
                    column_mapping |-> read.mapping_report,
                    has_srpe_columns |-> read.has_srpe,
                    status |-> "processing",
                    current_stage |-> "data_ingest",
                    error_message |-> None],
        cache |-> raw_handle.cache]

\* the checks of the frame read, without the one of the required columns
IngestRead_unvalidated(uploaded_files, store, read) ==
  IF read.raised # "none"
  THEN [update |-> IngestError(read.raised), cache |-> store]
  ELSE IF Empty(read.standardized_df)
  THEN [update |-> Failed("data_ingest", "No valid data found in uploaded files"),
        cache |-> store]
  ELSE IngestCommitted(read, store,
         DataFrameHandle(Frame(read.standardized_df), uploaded_files,
                         <<"ingest", "column_mapping">>, DEFAULT_CACHE_DIR, store))

\* data_ingest_node from the frame read on: its checks and the commit
IngestRead(uploaded_files, store, read) ==
  IF read.raised # "none"
  THEN [update |-> IngestError(read.raised), cache |-> store]
  ELSE IF Empty(read.standardized_df)
  THEN [update |-> Failed("data_ingest", "No valid data found in uploaded files"),
        cache |-> store]
  ELSE IF ~({PLAYER_NAME, DATE, DATA} \subseteq ColumnSet(read.standardized_df.columns))
  THEN [update |-> Failed("data_ingest", MissingMessage(read.standardized_df.columns)),
        cache |-> store]
  ELSE IngestCommitted(read, store,
         DataFrameHandle(Frame(read.standardized_df), uploaded_files,
                         <<"ingest", "column_mapping">>, DEFAULT_CACHE_DIR, store))

\* data_ingest_node(state): the updates it returns and the cache afterwards
data_ingest_node(s, disk, store) ==
  IF s.uploaded_files = <<>>
  THEN [update |-> Failed("data_ingest", "No files uploaded for processing"),
        cache |-> store]
  ELSE IngestRead(s.uploaded_files, store,
                  IF Len(s.uploaded_files) = 1
                  THEN IngestOne(disk[s.uploaded_files[1]])
                  ELSE IngestBatch(combine_multiple_files(s.uploaded_files, disk)))

\* what data_process_node returns when a step of it raises e
ProcessError(e) == Failed("data_process", "Data processing error: " \o e)

\* data_process_node from the commit of the processed frame on
ProcessCommitted(s, store, saved, processed_handle) ==
  IF processed_handle.raised # "none"
  THEN [update |-> ProcessError(processed_handle.raised), cache |-> store,
        outputs |-> saved.outputs]
  ELSE [update |-> [processed_data |-> processed_handle.handle,
                    processed_csv_path |-> s.session_id \o "_processed.csv",
                    processed_excel_path |-> s.session_id \o "_processed.xlsx",
                    status |-> "completed",
                    current_stage |-> "data_process",
                    error_message |-> None],
        cache |-> processed_handle.cache,
        outputs |-> saved.outputs]

\* data_process_node from save_processed_data on
ProcessSaved(s, store, processed_df, saved) ==
  IF saved.raised # "none"
  THEN [update |-> ProcessError(saved.raised), cache |-> store,
        outputs |-> saved.outputs]
  ELSE ProcessCommitted(s, store, saved,
         DataFrameHandle(processed_df, s.raw_data.sources,
                         s.raw_data.processing_fingerprints
                           \o <<"clean", "short_term_ave", "long_term_ave", "load_quality">>,
                         DEFAULT_CACHE_DIR, store))

\* data_process_node from process_all on
ProcessCalculated(s, store, out, writer, ranged, calculator) ==
  IF calculator.err # "none"
  THEN [update |-> ProcessError(calculator.err), cache |-> store, outputs |-> out]
  ELSE ProcessSaved(s, store,
         get_result(calculator.df,
                    IF ranged THEN RangeIndex(Len(calculator.df))
                    ELSE LabelIndex([r \in 1..Len(calculator.df) |-> r - 1])),
         save_processed_data(calculator.df, s.session_id \o "_processed.csv",
                             s.session_id \o "_processed.xlsx", writer, out))

\* data_process_node from the load of the raw frame on
ProcessLoaded(s, store, out, writer, ranged, loaded_df) ==
  IF loaded_df.raised # "none"
  THEN [update |-> ProcessError(loaded_df.raised), cache |-> store, outputs |-> out]
  ELSE ProcessCalculated(s, store, out, writer, ranged,
                         process_all(LoadCalculator(loaded_df.table)))

\* data_process_node(state): the updates it returns, the cache and the
\* outputs directory afterwards
data_process_node(s, store, out, writer, ranged) ==
  IF s.raw_data = None
  THEN [update |-> Failed("data_process", "No raw data available for processing"),
        cache |-> store, outputs |-> out]
  ELSE ProcessLoaded(s, store, out, writer, ranged, load(s.raw_data, "pandas", store))

\* the plots of generate_default_set, in the order they are drawn
Plots ==
  <<"_top_players_load.png", "_load_distribution.png", "_team_timeline.png",
    "_player_heatmap.png", "_top_players_training.png">>

\* generate_default_set(session_id) when the plots in drawn succeed: a plot
\* that raises is skipped
generate_default_set(session_id, drawn) ==
  LET kept == SelectSeq([i \in 1..Len(Plots) |-> i], LAMBDA i : i \in drawn)
  IN  [i \in 1..Len(kept) |-> session_id \o Plots[kept[i]]]

\* the plots that succeed in a run: none, some, or all of them
Drawn == {{}, {1, 3}, 1..Len(Plots)}

\* visualization_node(state): the updates it returns
visualization_node(s, store, drawn) ==
  LET processed_data == s.processed_data
      loaded_df == load(processed_data, "pandas", store)
  IN  IF processed_data = None
      THEN Failed("visualization", "No processed data available for visualization")
      ELSE IF loaded_df.raised # "none"
      THEN Failed("visualization", "Visualization error: " \o loaded_df.raised)
      ELSE [visualization_files |-> generate_default_set(s.session_id, drawn),
            status |-> "processing",
            current_stage |-> "visualization",
            error_message |-> None]

\* a report node that leaves the run in progress
report_generation_node_open(s, store, llm) ==
  LET processed_data == s.processed_data
      loaded_df == load(processed_data, "pandas", store)
      stats == get_summary_stats(loaded_df.table)
  IN  IF processed_data = None
      THEN Failed("report_generation", "No processed data available for report generation")
      ELSE IF loaded_df.raised # "none"
      THEN Failed("report_generation", "Report generation error: " \o loaded_df.raised)
      ELSE [report_markdown |-> [by |-> IF llm THEN "llm" ELSE "basic", stats |-> stats],
            token_usage |-> [total_tokens |-> IF llm THEN 1 ELSE 0],
            status |-> "processing",
            current_stage |-> "report_generation",
            error_message |-> None]

\* report_generation_node(state): the updates it returns; llm tells whether
\* the model answered (total_tokens 1 stands for the tokens it used),
\* otherwise the basic report is written
report_generation_node(s, store, llm) ==
  LET processed_data == s.processed_data
      loaded_df == load(processed_data, "pandas", store)
      stats == get_summary_stats(loaded_df.table)
  IN  IF processed_data = None
      THEN Failed("report_generation", "No processed data available for report generation")
      ELSE IF loaded_df.raised # "none"
      THEN Failed("report_generation", "Report generation error: " \o loaded_df.raised)
      ELSE [report_markdown |-> [by |-> IF llm THEN "llm" ELSE "basic", stats |-> stats],
            token_usage |-> [total_tokens |-> IF llm THEN 1 ELSE 0],
            status |-> "completed",
            current_stage |-> "report_generation",
            error_message |-> None]

routing_after_ingest(s) == IF s.status = "failed" THEN "END" ELSE "data_process"

\* the process node's edge taken whatever the status
routing_after_process_on(s) == "visualization"

routing_after_process(s) == IF s.status = "failed" THEN "END" ELSE "visualization"

routing_after_visualization(s) == IF s.status = "failed" THEN "END" ELSE "report_generation"

DataIngest ==
  /\ node = "data_ingest"
  /\ \E r \in {data_ingest_node(state, files, cache)} :
       /\ state' = Updated(state, r.update)
       /\ cache' = r.cache
  /\ node' = routing_after_ingest(state')
  /\ UNCHANGED <<outputs, files, file_paths, combined, frames, handles, loaded,
                 serialized, restored, calc_vars, mapper_vars, pair, more_vars>>

DataProcess ==
  /\ node = "data_process"
  /\ \E writer \in SpreadsheetWriters, ranged \in BOOLEAN :
       \E r \in {data_process_node(state, cache, outputs, writer, ranged)} :
         /\ state' = Updated(state, r.update)
         /\ cache' = r.cache
         /\ outputs' = r.outputs
  /\ node' = routing_after_process(state')
  /\ UNCHANGED <<files, file_paths, combined, frames, handles, loaded,
                 serialized, restored, calc_vars, mapper_vars, pair, more_vars>>

Visualization ==
  /\ node = "visualization"
  /\ \E drawn \in Drawn :
       state' = Updated(state, visualization_node(state, cache, drawn))
  /\ node' = routing_after_visualization(state')
  /\ UNCHANGED <<cache, outputs, files, file_paths, combined, frames, handles, loaded,
                 serialized, restored, calc_vars, mapper_vars, pair, more_vars>>

ReportGeneration ==
  /\ node = "report_generation"
  /\ \E llm \in BOOLEAN :
       state' = Updated(state, report_generation_node(state, cache, llm))
  /\ node' = "END"
  /\ UNCHANGED <<cache, outputs, files, file_paths, combined, frames, handles, loaded,
                 serialized, restored, calc_vars, mapper_vars, pair, more_vars>>

\* bound of a run: uploaded files of at most MaxUploadRows rows
MaxUploadRows == 2
UploadRows ==
  {<<Str("A"), Day(5), Num(3)>>, <<Str("A"), Day(6), NaN>>, <<Str("B"), Day(5), Txt>>,
   <<NaN, Day(6), Num(1)>>, <<NaN, NaN, NaN>>}

\* pd.read_csv reads a column with a non-numeric token as text throughout:
\* no column holds both numbers and texts
Typed(columns, rows) == FromPandasRaises(Frame([columns |-> columns, rows |-> rows])) = "none"

\* the files of a single upload: unreadable, a header without rows, or
\* player, date and load (or RPE and duration) columns with rows
SingleUploads ==
  {Unreadable}
  \cup {CsvFile(columns, <<>>) :
          columns \in {<<ColName, ColDate, ColLoad>>, <<ColName, ColLoad>>,
                       <<ColName, PLAYER_NAME, ColDate, ColLoad>>}}
  \cup {CsvFile(<<ColName, ColDate, ColLoad>>, rows) :
          rows \in {t \in Tables(UploadRows, MaxUploadRows) \ {<<>>} :
                      Typed(<<ColName, ColDate, ColLoad>>, t)}}
  \cup {CsvFile(<<ColName, PLAYER_NAME, ColDate, ColLoad>>,
                <<<<Str("A"), Str("A"), Day(5), Num(3)>>>>),
        CsvFile(<<ColName, ColLoad>>, <<<<Str("A"), Num(3)>>>>),
        CsvFile(<<ColName, ColDate, ColRPE, ColDuration>>,
                <<<<Str("A"), Day(5), Num(2), Num(3)>>>>)}

\* the files of a batch
BatchUploads ==
  {Unreadable,
   CsvFile(<<ColName, PLAYER_NAME>>, <<>>),
   CsvFile(<<ColName, ColDate, ColLoad>>, <<>>),
   CsvFile(<<ColName, ColDate, ColLoad>>, <<<<Str("A"), Day(5), Num(3)>>>>),
   CsvFile(<<ColName, ColDate, ColLoad>>, <<<<NaN, NaN, NaN>>>>),
   CsvFile(<<ColName, ColDate, ColRPE, ColDuration>>, <<<<Str("B"), Day(6), Num(2), Num(3)>>>>)}

\* no upload, one file, or a batch of two files
Uploads ==
  {[uploaded_files |-> <<>>, files |-> [p \in Paths |-> Unreadable]]}
  \cup {[uploaded_files |-> <<"a">>, files |-> [p \in Paths |-> IF p = "a" THEN f ELSE Unreadable]] :
          f \in SingleUploads}
  \cup {[uploaded_files |-> <<"a", "b">>, files |-> d] : d \in [Paths -> BatchUploads]}

InitGraph ==
  /\ \E u \in Uploads :
       /\ files = u.files
       /\ state = create_initial_state("s1", u.uploaded_files)
  /\ node = "data_ingest"
  /\ cache = <<>>
  /\ outputs = <<>>
  /\ file_paths = <<>>
  /\ combined = <<>>
  /\ frames = <<>>
  /\ handles = <<>>
  /\ loaded = <<>>
  /\ serialized = <<>>
  /\ restored = <<>>
  /\ IdleCalc /\ IdleMapper /\ IdlePair /\ IdleMore

Invoke == DataIngest \/ DataProcess \/ Visualization \/ ReportGeneration

NextGraph == Invoke \/ Evict

SpecGraph == InitGraph /\ [][NextGraph]_vars

\* graph.invoke runs one node after the other until END: weak fairness of
\* Invoke, written with its enabling condition, which is that the run has
\* not reached END (every node returns, and every node step moves on)
SpecGraphFair == SpecGraph /\ ([]<>(node = "END") \/ []<><<Invoke>>_vars)

(***************************************************************************)
(* Two calculators run on two frames of the same players and dates:        *)
(* pair holds the two frames and, once processed, the two results of       *)
(* process_all.                                                            *)
(***************************************************************************)
\* bound of the pair: frames of at most MaxPairRows records
MaxPairRows == 3
\* a Saturday, the Sunday after it, and the Sundays two and three weeks on
PairDays == {5, 6, 13, 20}
PairData == {NaN, Num(1), Num(3)}

PairPlayers == {"A", "B"}

\* the records of the days D, in date order, of the players p and loads f
RECURSIVE PairRows(_, _, _)
PairRows(D, p, f) ==
  IF D = {} THEN <<>>
  ELSE LET d == MinOf(D)
       IN  <<MkRow(p[d], Num(d), f[d])>> \o PairRows(D \ {d}, p, f)

ProcessPair ==
  /\ pair.out = NotCalled
  /\ pair' = [pair EXCEPT !.out = [raised |-> "none",
                                   left |-> process_all(pair.left),
                                   right |-> process_all(pair.right)]]
  /\ UNCHANGED <<calc_vars, mapper_vars, handle_vars, combine_vars, graph_vars, more_vars>>

InitPair ==
  /\ \E D \in {E \in SUBSET PairDays : Cardinality(E) <= MaxPairRows} :
       \E p \in [D -> PairPlayers], f, g \in [D -> PairData] :
         \* the players are interchangeable: the first record is of "A"
         /\ D # {} => p[MinOf(D)] = "A"
         /\ pair = [left |-> PairRows(D, p, f), right |-> PairRows(D, p, g),
                    out |-> NotCalled]
  /\ IdleCalc /\ IdleMapper /\ IdleHandle /\ IdleCombine /\ IdleGraph /\ IdleMore

SpecPair == InitPair /\ [][ProcessPair]_vars

(***************************************************************************)
(* A calculator constructed on a frame and cleaned: cleaned holds the      *)
(* frame given to LoadCalculator and, once clean_data has run, self.df.    *)
(***************************************************************************)
\* bound of the frame given: at most MaxCleanRows rows
MaxCleanRows == 2
\* player cells: two names, a blank text, no value
CleanPlayers == {Str("A"), Str("B"), Str(" "), NaN}
\* date cells: the text of a date, a text that is no date, no value
CleanDates == {Day(5), Day(6), Txt, NaN}
CleanRows == {<<p, d, x>> : p \in CleanPlayers, d \in CleanDates, x \in InputData}

Clean ==
  /\ cleaned.out = NotCalled
  /\ cleaned' = [cleaned EXCEPT
                   !.out = [raised |-> "none",
                            df |-> clean_data(LoadCalculator(cleaned.given))]]
  /\ UNCHANGED <<calc_vars, mapper_vars, handle_vars, combine_vars, graph_vars, pair,
                 api_vars>>

InitClean ==
  /\ \E t \in Tables(CleanRows, MaxCleanRows) :
       cleaned = [given |-> [columns |-> <<PLAYER_NAME, DATE, DATA>>, rows |-> t],
                  out |-> NotCalled]
  /\ IdleCalc /\ IdleMapper /\ IdleHandle /\ IdleCombine /\ IdleGraph /\ IdlePair
  /\ IdleApi

SpecClean == InitClean /\ [][Clean]_vars

(***************************************************************************)
(* The chat tools: a tool loads the processed frame from the handle of its *)
(* context and reads columns of it by name.                                *)
(***************************************************************************)
ACWR == <<"A", "C", "W", "R">>
ACWR_CATEGORY == <<"A", "C", "W", "R", "_", "c", "a", "t", "e", "g", "o", "r", "y">>

\* the characters of the player names of the uploads
NameChars == [n \in {"A", "B", "nan", ""} |->
                IF n = "nan" THEN <<"n", "a", "n">> ELSE IF n = "" THEN <<>> ELSE <<n>>]

\* a in b, for two strings
Within(a, b) == \E i \in 0..(Len(b) - Len(a)) : SubSeq(b, i + 1, i + Len(a)) = a

\* the number of characters in the matching blocks of SequenceMatcher(None, a, b):
\* the longest common block, the leftmost in a and then in b, and the blocks
\* left and right of it
RECURSIVE MatchingChars(_, _)
MatchingChars(a, b) ==
  LET blocks == {m \in (1..Len(a)) \X (1..Len(b)) \X (1..Len(a)) :
                   /\ m[1] + m[3] - 1 <= Len(a)
                   /\ m[2] + m[3] - 1 <= Len(b)
                   /\ SubSeq(a, m[1], m[1] + m[3] - 1) = SubSeq(b, m[2], m[2] + m[3] - 1)}
  IN  IF blocks = {} THEN 0
      ELSE LET best == CHOOSE m \in blocks : \A n \in blocks :
                         \/ m[3] > n[3]
                         \/ m[3] = n[3] /\ m[1] < n[1]
                         \/ m[3] = n[3] /\ m[1] = n[1] /\ m[2] <= n[2]
           IN  best[3]
                 + MatchingChars(SubSeq(a, 1, best[1] - 1), SubSeq(b, 1, best[2] - 1))
                 + MatchingChars(SubSeq(a, best[1] + best[3], Len(a)),
                                 SubSeq(b, best[2] + best[3], Len(b)))

\* the score of a player for a query, in tenths: 0.9 for a containment, else
\* SequenceMatcher.ratio() = 2 M / T, rounded down (1.0 for two empty strings)
Score10(query_lower, player_lower) ==
  IF Within(query_lower, player_lower) \/ Within(player_lower, query_lower) THEN 9
  ELSE IF Len(query_lower) + Len(player_lower) = 0 THEN 10
  ELSE (20 * MatchingChars(query_lower, player_lower))
         \div (Len(query_lower) + Len(player_lower))

\* the loop of _fuzzy_match_player from the player at i on
RECURSIVE FuzzyFrom(_, _, _, _, _)
FuzzyFrom(players, i, query_lower, best_match, best_score) ==
  IF i > Len(players) THEN (IF best_score >= 6 THEN best_match ELSE None)
  ELSE LET player_lower == Lower(NameChars[players[i].v])
       IN  IF query_lower = player_lower THEN players[i]
           ELSE IF Score10(query_lower, player_lower) > best_score
           THEN FuzzyFrom(players, i + 1, query_lower, players[i],
                          Score10(query_lower, player_lower))
           ELSE FuzzyFrom(players, i + 1, query_lower, best_match, best_score)

\* _fuzzy_match_player(df, query) on a frame with a player_name column at
\* position at
fuzzy_match_player(t, at, query) ==
  FuzzyFrom(Unique([r \in 1..Len(t.rows) |-> t.rows[r][at]]), 1, Strip(Lower(query)),
            None, 0)

\* df[c] for each column c of reads in turn: the first one that is not a
\* column of the frame raises KeyError
ReadColumns(t, reads) ==
  LET absent == SelectSeq(reads, LAMBDA c : Labelled(t.columns, c) = {})
  IN  IF absent = <<>> THEN [raised |-> "none"]
      ELSE [raised |-> "KeyError", key |-> Head(absent)]

\* _get_df_from_context(context)
get_df_from_context(context, store) ==
  IF None = context.processed_data THEN [raised |-> "ValueError"]
  ELSE load(context.processed_data, "pandas", store)

\* get_data_summary(context): player_name, date and ACWR are read
\* unconditionally, ACWR_category only when it is a column
get_data_summary(context, store) ==
  LET df_loaded == get_df_from_context(context, store)
  IN  IF df_loaded.raised # "none" THEN [raised |-> df_loaded.raised]
      ELSE ReadColumns(df_loaded.table, <<PLAYER_NAME, DATE, ACWR>>)

\* plot_player_trend from the matched player on: the rows are sorted by
\* date and date and ACWR are plotted
PlotMatched(t, matched) ==
  IF None = matched THEN [raised |-> "none", error |-> "not found"]
  ELSE ReadColumns(t, <<DATE, ACWR>>)

\* plot_player_trend(context, player_name), without a date range
plot_player_trend(context, store, player_name) ==
  LET df_loaded == get_df_from_context(context, store)
  IN  IF df_loaded.raised # "none" THEN [raised |-> df_loaded.raised]
      ELSE IF Labelled(df_loaded.table.columns, PLAYER_NAME) = {}
      THEN [raised |-> "KeyError", key |-> PLAYER_NAME]
      ELSE PlotMatched(df_loaded.table,
                       fuzzy_match_player(df_loaded.table,
                                          CHOOSE i \in Labelled(df_loaded.table.columns,
                                                                PLAYER_NAME) : TRUE,
                                          player_name))

\* the tool calls the model may ask for
ToolCalls ==
  {[tool |-> "get_data_summary", player_name |-> <<>>]}
  \cup {[tool |-> "plot_player_trend", player_name |-> q] : q \in {<<"A">>, <<"Z">>}}

\* ChatAgent._execute_tool: a tool that raises gives an error text
execute_tool(context, store, c) ==
  LET r == IF c.tool = "get_data_summary" THEN get_data_summary(context, store)
           ELSE plot_player_trend(context, store, c.player_name)
  IN  [tool |-> c.tool, args |-> c.player_name, raised |-> r.raised,
       key |-> IF r.raised = "KeyError" THEN r.key ELSE None]

(***************************************************************************)
(* The API: upload, process, chat and delete requests on the sessions      *)
(* store. A handler runs on the event loop without awaiting, so a request  *)
(* is handled only when no process request is in flight.                   *)
(***************************************************************************)
\* bound of the API: at most MaxSessions uploads are accepted
MaxSessions == 2

\* the uploads of the API: no file, or a single file that is unreadable,
\* lacks a date column, or holds two rows
ApiUploads ==
  {u \in Uploads :
     /\ Len(u.uploaded_files) <= 1
     /\ u.files["a"] \in {Unreadable,
                          CsvFile(<<ColName, ColLoad>>, <<<<Str("A"), Num(3)>>>>),
                          CsvFile(<<ColName, ColDate, ColLoad>>,
                                  <<<<Str("A"), Day(5), Num(3)>>, <<NaN, Day(6), Num(1)>>>>)}}

\* process_files accepting a completed session as well
Processable_completed == {"uploaded", "failed", "completed"}

\* the statuses process_files accepts
Processable == {"uploaded", "failed"}

\* POST /upload: csv says whether every file name ends in .csv
upload_files(u, csv, session_id) ==
  /\ None = running
  /\ Cardinality(issued) < MaxSessions
  /\ session_id \notin issued
  /\ issued' = issued \cup {session_id}
  /\ IF ~csv \/ u.uploaded_files = <<>>
     THEN /\ response' = [op |-> "upload", session_id |-> session_id, code |-> 400]
          /\ UNCHANGED sessions
     ELSE /\ sessions' = [s \in DOMAIN sessions \cup {session_id} |->
                            IF s = session_id
                            THEN [uploaded_files |-> u.uploaded_files,
                                  dir |-> u.files,
                                  status |-> "uploaded",
                                  state |-> None,
                                  error |-> None]
                            ELSE sessions[s]]
          /\ response' = [op |-> "upload", session_id |-> session_id, code |-> 200]
  /\ UNCHANGED <<chat_agents, running, cleaned, calc_vars, mapper_vars, handle_vars,
                 combine_vars, graph_vars, pair>>

\* POST /process up to graph.invoke
process_files(session_id) ==
  /\ None = running
  /\ IF session_id \notin DOMAIN sessions
     THEN /\ response' = [op |-> "process", session_id |-> session_id, code |-> 404]
          /\ UNCHANGED <<sessions, running, state, node, files>>
     ELSE IF sessions[session_id].status \notin Processable
     THEN /\ response' = [op |-> "process", session_id |-> session_id, code |-> 400]
          /\ UNCHANGED <<sessions, running, state, node, files>>
     ELSE /\ sessions' = [sessions EXCEPT ![session_id].status = "processing"]
          /\ state' = create_initial_state(session_id, sessions[session_id].uploaded_files)
          /\ files' = sessions[session_id].dir
          /\ node' = "data_ingest"
          /\ running' = session_id
          /\ response' = None
  /\ UNCHANGED <<issued, chat_agents, cleaned, calc_vars, mapper_vars, handle_vars,
                 file_paths, combined, outputs, pair>>

\* POST /process from the return of graph.invoke on
ProcessReturn ==
  /\ None # running
  /\ node = "END"
  /\ sessions' = [sessions EXCEPT
                    ![running].state = state,
                    ![running].status = IF "status" \in DOMAIN state THEN state.status
                                        ELSE "completed"]
  /\ response' = [op |-> "process", session_id |-> running, code |-> 200,
                  status |-> sessions'[running].status]
  /\ running' = None
  /\ node' = "idle"
  /\ state' = <<>>
  /\ UNCHANGED <<issued, chat_agents, cleaned, calc_vars, mapper_vars, handle_vars,
                 combine_vars, outputs, pair>>

\* POST /process when compiling or running the graph raises
ProcessRaise ==
  /\ None # running
  /\ node # "END"
  /\ sessions' = [sessions EXCEPT ![running].status = "failed",
                                  ![running].error = "Exception"]
  /\ response' = [op |-> "process", session_id |-> running, code |-> 200,
                  status |-> "failed"]
  /\ running' = None
  /\ node' = "idle"
  /\ state' = <<>>
  /\ UNCHANGED <<issued, chat_agents, cleaned, calc_vars, mapper_vars, handle_vars,
                 combine_vars, outputs, pair>>

\* POST /chat: llm says whether the chat model can be built and called, c is
\* the tool call it asks for, if any
chat(session_id, llm, c) ==
  /\ None = running
  /\ IF session_id \notin DOMAIN sessions
     THEN /\ response' = [op |-> "chat", session_id |-> session_id, code |-> 404]
          /\ UNCHANGED chat_agents
     ELSE IF None = sessions[session_id].state
     THEN /\ response' = [op |-> "chat", session_id |-> session_id, code |-> 400]
          /\ UNCHANGED chat_agents
     ELSE IF sessions[session_id].state.status # "completed"
     THEN /\ response' = [op |-> "chat", session_id |-> session_id, code |-> 400]
          /\ UNCHANGED chat_agents
     ELSE IF None = sessions[session_id].state.processed_data
     THEN /\ response' = [op |-> "chat", session_id |-> session_id, code |-> 400]
          /\ UNCHANGED chat_agents
     ELSE IF ~llm
     THEN /\ response' = [op |-> "chat", session_id |-> session_id, code |-> 500]
          /\ UNCHANGED chat_agents
     ELSE /\ chat_agents' =
               IF session_id \in DOMAIN chat_agents THEN chat_agents
               ELSE [s \in DOMAIN chat_agents \cup {session_id} |->
                       IF s = session_id
                       THEN [session_id |-> session_id,
                             processed_data |-> sessions[session_id].state.processed_data]
                       ELSE chat_agents[s]]
          /\ response' = [op |-> "chat", session_id |-> session_id, code |-> 200,
                          tool_calls |->
                            IF None = c THEN <<>>
                            ELSE <<execute_tool(chat_agents'[session_id], cache, c)>>]
  /\ UNCHANGED <<sessions, issued, running, cleaned, calc_vars, mapper_vars, handle_vars,
                 combine_vars, graph_vars, pair>>

\* DELETE /session
delete_session(session_id) ==
  /\ None = running
  /\ IF session_id \notin DOMAIN sessions
     THEN /\ response' = [op |-> "delete", session_id |-> session_id, code |-> 404]
          /\ UNCHANGED <<sessions, chat_agents>>
     ELSE /\ sessions' = [s \in DOMAIN sessions \ {session_id} |-> sessions[s]]
          /\ chat_agents' = [s \in DOMAIN chat_agents \ {session_id} |-> chat_agents[s]]
          /\ response' = [op |-> "delete", session_id |-> session_id, code |-> 200]
  /\ UNCHANGED <<issued, running, cleaned, calc_vars, mapper_vars, handle_vars,
                 combine_vars, graph_vars, pair>>

\* str(uuid.uuid4()): an id that was never handed out
FreshId == IF "s1" \notin issued THEN "s1" ELSE "s2"

Upload == \E u \in ApiUploads, csv \in BOOLEAN : upload_files(u, csv, FreshId)

Process == \E session_id \in Sessions : process_files(session_id)

Chat == \E session_id \in Sessions, llm \in BOOLEAN, c \in ToolCalls \cup {None} :
          chat(session_id, llm, c)

Delete == \E session_id \in Sessions : delete_session(session_id)

InitApi ==
  /\ IdleApi
  /\ files = [p \in Paths |-> Unreadable]
  /\ state = <<>>
  /\ node = "idle"
  /\ cache = <<>>
  /\ outputs = <<>>
  /\ file_paths = <<>>
  /\ combined = <<>>
  /\ frames = <<>>
  /\ handles = <<>>
  /\ loaded = <<>>
  /\ serialized = <<>>
  /\ restored = <<>>
  /\ IdleCalc /\ IdleMapper /\ IdlePair /\ IdleClean

NextApi == Upload \/ Process \/ Invoke \/ ProcessReturn \/ ProcessRaise \/ Chat \/ Delete

SpecApi == InitApi /\ [][NextApi]_vars

(***************************************************************************)
(* Properties of the table cache.                                          *)
(***************************************************************************)
Committed(s) == handles[s].raised = "none"

\* the cache file of session s still holds what s committed
Owns(s) ==
  /\ Committed(s)
  /\ \A t \in Sessions \ {s} :
       Committed(t) => handles[t].handle.cache_path # handles[s].handle.cache_path

Missing(c) == c \in {NaN, Null}

\* the same cells, a missing value standing for any missing value
SameValues(a, b) ==
  /\ Len(a.rows) = Len(b.rows)
  /\ \A r \in 1..Len(a.rows) :
       /\ Len(a.rows[r]) = Len(b.rows[r])
       /\ \A i \in 1..Len(a.rows[r]) :
            \/ a.rows[r][i] = b.rows[r][i]
            \/ Missing(a.rows[r][i]) /\ Missing(b.rows[r][i])

\* C14: a table loaded through the handle its commit returned has the shape,
\* the column names and the values of the committed table, in each of the
\* formats pandas, polars and polars_lazy
C14_RoundTrip ==
  (loaded.raised = "none" /\ Owns(loaded.of)) =>
    LET committed == frames[loaded.of].dataframe
    IN  /\ Shape(loaded.table) = Shape(committed)
        /\ loaded.table.columns = committed.columns
        /\ SameValues(loaded.table, committed)

SameSet(a, b) == {a[i] : i \in 1..Len(a)} = {b[i] : i \in 1..Len(b)}

Count(a, x) == Cardinality({i \in 1..Len(a) : a[i] = x})

\* b is a reordering of a
Permutation(a, b) == \A x \in {"a", "ab", "b"} : Count(a, x) = Count(b, x)

SameKey(s, t) ==
  /\ handles[s].handle.uid = handles[t].handle.uid
  /\ handles[s].handle.cache_path = handles[t].handle.cache_path

Loads == loaded' # loaded /\ loaded'.raised # "not called"

FileOf(x) == handles[x.of].handle.cache_path

\* C16 as stated: load fails with a not-found error when the cache file is
\* absent and with a validation error naming the allowed formats when a
\* format other than pandas, polars, polars_lazy is requested; the cache and
\* the handle stay as they were
C16_LoadErrors ==
  [][Loads =>
       /\ FileOf(loaded') \notin DOMAIN cache => loaded'.raised = "FileNotFoundError"
       /\ (/\ FileOf(loaded') \in DOMAIN cache
           /\ loaded'.format # "None"
           /\ loaded'.format \notin valid_formats)
          => (loaded'.raised = "ValueError" /\ loaded'.message = valid_formats)
       /\ cache' = cache
       /\ handles' = handles]_vars

\* C16, amended: load fails with a not-found error when the cache file is
\* absent, whatever the format; with the file present, a format of None or
\* the empty string selects the handle's own df_type, and any other format
\* outside pandas, polars, polars_lazy fails with a validation error naming
\* the three; a table is returned only in a valid format and is the stored
\* one; the cache and the handle stay as they were
C16_LoadErrorsOrDefault ==
  [][Loads =>
       LET h == handles[loaded'.of].handle
           chosen == IF loaded'.format \in {"None", ""} THEN h.df_type ELSE loaded'.format
       IN  /\ FileOf(loaded') \notin DOMAIN cache => loaded'.raised = "FileNotFoundError"
           /\ (FileOf(loaded') \in DOMAIN cache /\ chosen \notin valid_formats)
              => (loaded'.raised = "ValueError" /\ loaded'.message = valid_formats)
           /\ (FileOf(loaded') \in DOMAIN cache /\ chosen \in valid_formats)
              => /\ loaded'.raised = "none"
                 /\ loaded'.table.kind = chosen
                 /\ loaded'.table.columns = cache[FileOf(loaded')].columns
                      \/ chosen = "pandas"
                 /\ Len(loaded'.table.rows) = Len(cache[FileOf(loaded')].rows)
           /\ cache' = cache
           /\ handles' = handles]_vars

\* an unknown format asked of a handle whose file is gone: not found
C16_Witness ==
  /\ loaded.raised = "FileNotFoundError"
  /\ loaded.format = "csv"
  /\ \E s \in Sessions : Committed(s) /\ handles[s].handle.cache_path \in DOMAIN cache

RoundTrips(h, r) ==
  /\ r.uid = h.uid
  /\ r.df_type = h.df_type
  /\ r.sources = h.sources
  /\ r.processing_fingerprints = h.processing_fingerprints
  /\ r.shape = h.shape
  /\ r.columns = h.columns
  /\ r.cache_dir = h.cache_dir
  /\ r.cache_path = h.cache_path

\* C17: from_dict(to_dict(h)) has the uid, df_type, sources,
\* processing_fingerprints, shape, columns, cache directory and cache file
\* path of h, its uid is the serialized one, the cache is not touched, and
\* it loads what h loads
C17_SerializationRoundTrip ==
  [][(restored' # restored /\ restored'.raised = "none") =>
       LET h == handles[restored'.of].handle
           r == restored'.handle
       IN  /\ RoundTrips(h, r)
           /\ r.uid = serialized.data.uid
           /\ cache' = cache
           /\ \A format \in Formats : load(r, format, cache') = load(h, format, cache')]_vars

\* a handle of two sources and two processing steps restored from its
\* dictionary, its cache file in place
C17_Witness ==
  /\ restored.raised = "none"
  /\ Len(restored.handle.sources) = 2
  /\ Len(restored.handle.processing_fingerprints) = 2
  /\ restored.handle.cache_path \in DOMAIN cache

(***************************************************************************)
(* Properties of combine_multiple_files.                                   *)
(***************************************************************************)
\* the number of rows the files before position i of the batch contribute
RECURSIVE RowsBefore(_)
RowsBefore(i) ==
  IF i <= 1 THEN 0
  ELSE RowsBefore(i - 1)
       + (IF files[file_paths[i - 1]].readable THEN Len(files[file_paths[i - 1]].rows) ELSE 0)

\* the cell of a row of the combined frame under the column name
CellOf(row, name) == row[CHOOSE j \in Labelled(combined.columns, name) : TRUE]

\* one report per path in input order, a mapping report for a file that was
\* read and an error record for one that was not
ReportsPerPath ==
  /\ Len(combined.reports) = Len(file_paths)
  /\ \A i \in 1..Len(file_paths) :
       /\ combined.reports[i].file = file_paths[i]
       /\ IF files[file_paths[i]].readable
          THEN /\ "error" \notin DOMAIN combined.reports[i]
               /\ combined.reports[i]
                    = [file |-> file_paths[i]] @@ get_mapping_report(files[file_paths[i]])
          ELSE "error" \in DOMAIN combined.reports[i]

\* the rows of the mapped files in file order and then row order, each with
\* the path it came from
RowsInFileOrder ==
  /\ Len(combined.rows) = RowsBefore(Len(file_paths) + 1)
  /\ \A i \in 1..Len(file_paths) :
       files[file_paths[i]].readable =>
         LET mapped == Standardize(files[file_paths[i]])
         IN  \A r \in 1..Len(mapped.rows) :
               LET row == combined.rows[RowsBefore(i) + r]
               IN  /\ CellOf(row, SOURCE_FILE) = Str(file_paths[i])
                   /\ \A c \in 1..Len(mapped.columns) :
                        CellOf(row, mapped.columns[c]) = mapped.rows[r][c]

\* C13: combine_multiple_files returns for every list of paths: one report
\* per path in input order, and the rows of the files that were mapped, in
\* file order and then row order, each tagged with its source path; files
\* that failed contribute no rows
C13_NeverAborts ==
  combined # NotCalled =>
    /\ combined.raised = "none"
    /\ ReportsPerPath
    /\ RowsInFileOrder

(***************************************************************************)
(* Properties of the workflow graph.                                       *)
(***************************************************************************)
Required == {PLAYER_NAME, DATE, DATA}

\* the standardized table the ingest node builds from the uploaded files,
\* or the exception that kept it from building one
IngestTable ==
  IF Len(state.uploaded_files) = 1
  THEN (IF files[state.uploaded_files[1]].readable
        THEN [raised |-> "none"] @@ Standardize(files[state.uploaded_files[1]])
        ELSE [raised |-> "ParserError"])
  ELSE combine_multiple_files(state.uploaded_files, files)

\* non-empty, with the three canonical columns
Complete(t) ==
  /\ t.raised = "none"
  /\ ~Empty(t)
  /\ Required \subseteq ColumnSet(t.columns)

\* the ingest node has returned
Ingested == node # "data_ingest"

\* detection resolved the canonical column for the file: a column is mapped
\* to it or already carries its name, or data is derived from RPE and time
Resolved(file, canonical) ==
  LET d == detect_columns(file.columns)
  IN  \/ \E col \in ColumnSet(file.columns) :
           (IF col \in DOMAIN d.mapping THEN d.mapping[col] ELSE col) = canonical
      \/ canonical = DATA /\ d.has_srpe_columns

\* C11: the mapper's projection of every file that was read holds exactly
\* the canonical columns detection resolved; when the standardized table is
\* empty or lacks player_name, date or data, the ingest node ends in status
\* failed with a non-empty error_message and commits no raw handle; a raw
\* handle is committed only for a non-empty table with all three columns
C11_DetectionFailure ==
  Ingested =>
    /\ \A i \in 1..Len(state.uploaded_files) :
         LET file == files[state.uploaded_files[i]]
         IN  file.readable =>
               ColumnSet(Standardize(file).columns) = {c \in Required : Resolved(file, c)}
    /\ ~Complete(IngestTable) =>
         /\ state.status = "failed"
         /\ state.current_stage = "data_ingest"
         /\ None # state.error_message
         /\ state.error_message # ""
         /\ None = state.raw_data
         /\ cache = <<>>
    /\ None # state.raw_data => Complete(IngestTable)

\* a file with rows whose date column was not detected: the run ended in
\* the ingest node, nothing committed
C11_Witness ==
  /\ node = "END"
  /\ IngestTable.raised = "none"
  /\ ~Empty(IngestTable)
  /\ DATE \notin ColumnSet(IngestTable.columns)
  /\ state.status = "failed"
  /\ None = state.raw_data

\* the sole uploaded file has the three columns and rows, every cell blank
AllBlank ==
  /\ Len(state.uploaded_files) = 1
  /\ LET file == files[state.uploaded_files[1]]
     IN  /\ file.readable
         /\ \A c \in Required : Resolved(file, c)
         /\ file.rows # <<>>
         /\ \A r \in 1..Len(file.rows) : \A i \in 1..Len(file.rows[r]) : IsNa(file.rows[r][i])

\* C12: a sole input file with the required columns whose rows are all
\* blank gives an empty standardized table, and the run ends in the ingest
\* node with status failed, never with status completed
C12_BlankRowsFatal ==
  (AllBlank /\ node = "END") =>
    /\ Empty(IngestTable)
    /\ state.status = "failed"
    /\ state.current_stage = "data_ingest"

Stages == {"data_ingest", "data_process", "visualization", "report_generation"}

Final == node = "END"

\* C18: every run from the initial state reaches END; the final status is
\* completed or failed; failed comes with a non-empty error_message and the
\* stage that failed in current_stage; completed comes with a processed
\* handle whose cache file holds the derived table, and no error_message
C18_Terminates ==
  /\ <>Final
  /\ [](Final =>
          /\ state.status \in {"completed", "failed"}
          /\ state.status = "failed" =>
               /\ None # state.error_message
               /\ state.error_message # ""
               /\ state.current_stage \in Stages
          /\ state.status = "completed" =>
               /\ None # state.processed_data
               /\ None = state.error_message)
  /\ [][(node # "END" /\ node' = "END") =>
          /\ state'.status = "failed" => state'.current_stage = node
          /\ state'.status = "completed" =>
               LET derived == load(state'.processed_data, "pandas", cache')
               IN  /\ derived.raised = "none"
                   /\ derived.table.columns = state'.processed_data.columns
                   /\ LOAD_QUALITY \in ColumnSet(derived.table.columns)]_vars

\* a run that ended completed, with the five plots and the model's report
C18_Witness ==
  /\ Final
  /\ state.status = "completed"
  /\ state.current_stage = "report_generation"
  /\ Len(state.visualization_files) = Len(Plots)
  /\ state.report_markdown.by = "llm"

\* C19: a data_process node that has the processed rows writes the
\* CSV and a spreadsheet at the excel path, formatted or not, and does not
\* fail, whatever the spreadsheet writer does
C19_SpreadsheetFallback ==
  [][(/\ node = "data_process"
      /\ node' # "data_process"
      /\ load(state.raw_data, "pandas", cache).raised = "none"
      /\ process_all(LoadCalculator(load(state.raw_data, "pandas", cache).table)).err = "none")
     =>
     /\ (state.session_id \o "_processed.csv") \in DOMAIN outputs'
     /\ (state.session_id \o "_processed.xlsx") \in DOMAIN outputs'
     /\ state'.status # "failed"]_vars

(***************************************************************************)
(* Properties of two runs of the pipeline.                                 *)
(***************************************************************************)
Processed == pair.out # NotCalled

\* the two frames have the same players and dates, record by record
SameKeys ==
  /\ Len(pair.left) = Len(pair.right)
  /\ \A i \in 1..Len(pair.left) :
       /\ pair.left[i].player_name = pair.right[i].player_name
       /\ pair.left[i].date = pair.right[i].date

\* the week of record i of the frames, by the calendar of their dates
WeekOf(i) ==
  week_index_for_date(pair.left[i].date, FirstSunday(MinOf(ValidDates(pair.left)))).v

\* the frames differ only in data of week w or later
DifferFrom(w) ==
  \A i \in 1..Len(pair.left) :
    pair.left[i].data # pair.right[i].data => WeekOf(i) >= w

Weeks == 0..((MaxOf(PairDays) - MinOf(PairDays)) \div 7 + 1)

\* the rows of week w or earlier carry the same long_term_ave in both results
SameLongThrough(w) ==
  /\ Len(pair.out.left.df) = Len(pair.out.right.df)
  /\ \A j \in 1..Len(pair.out.left.df) :
       LET a == pair.out.left.df[j]
           b == pair.out.right.df[j]
       IN  /\ a.player_name = b.player_name
           /\ a.date = b.date
           /\ a.week_index = b.week_index
           /\ a.week_index.v <= w => a.long_term_ave = b.long_term_ave

\* C20: for two frames with the same players and dates that differ only in
\* data of week w or later, every row of a week before w, and of week w
\* itself, has the same long_term_ave in both processed frames
C20_LongTermLocal ==
  (Processed /\ SameKeys) =>
    /\ pair.out.left.err = "none"
    /\ pair.out.right.err = "none"
    /\ \A w \in Weeks : DifferFrom(w) => SameLongThrough(w)

\* two frames that differ in week 2 and nowhere before: week 2 has one
\* long_term_ave, a number, in both results, and week 3 has two
C20_Witness ==
  /\ Processed
  /\ SameKeys
  /\ DifferFrom(2)
  /\ ~DifferFrom(3)
  /\ \E j \in 1..Len(pair.out.left.df) :
       /\ pair.out.left.df[j].week_index = Num(2)
       /\ IsNum(pair.out.left.df[j].long_term_ave)
       /\ pair.out.right.df[j].long_term_ave = pair.out.left.df[j].long_term_ave
  /\ \E j \in 1..Len(pair.out.left.df) :
       /\ pair.out.left.df[j].week_index = Num(3)
       /\ pair.out.left.df[j].long_term_ave # pair.out.right.df[j].long_term_ave

(***************************************************************************)
(* Properties of clean_data.                                               *)
(***************************************************************************)
CleanCalled == cleaned.out # NotCalled

\* the rows of the frame given whose date cell is the text of a date
Dated == {i \in 1..Len(cleaned.given.rows) : cleaned.given.rows[i][2].k = "date"}

\* the k-th smallest element of a set of numbers
RECURSIVE Nth(_, _)
Nth(S, k) == IF k = 1 THEN MinOf(S) ELSE Nth(S \ {MinOf(S)}, k - 1)

\* C21: clean_data drops exactly the rows whose date is missing or not a
\* date: the rows kept are the rows given with a valid date, in their order,
\* each with its date, and with its data made missing when it is not a number
C21_DropsUndated ==
  CleanCalled =>
    /\ Len(cleaned.out.df) = Cardinality(Dated)
    /\ \A k \in 1..Len(cleaned.out.df) :
         LET given == cleaned.given.rows[Nth(Dated, k)]
             kept == cleaned.out.df[k]
         IN  /\ kept.date = Num(given[2].v)
             /\ kept.data = (IF IsNum(given[3]) THEN given[3] ELSE NaN)

\* a frame with an undated row that is dropped and a dated row without a
\* number that is kept
C21_Witness ==
  /\ CleanCalled
  /\ Len(cleaned.given.rows) = 2
  /\ Len(cleaned.out.df) = 1
  /\ cleaned.given.rows[1][2] = Txt
  /\ cleaned.given.rows[2][3] = Txt
  /\ cleaned.out.df[1].data = NaN

\* C22: after clean_data every row carries the player identifier of the row
\* it was given as, and that identifier was present: a text that is not blank
C22_PlayerPresent ==
  CleanCalled =>
    /\ Len(cleaned.out.df) = Cardinality(Dated)
    /\ \A k \in 1..Len(cleaned.out.df) :
         LET given == cleaned.given.rows[Nth(Dated, k)]
         IN  /\ ~IsNa(given[1])
             /\ StripName(given[1].v) # ""
             /\ cleaned.out.df[k].player_name = given[1].v

(***************************************************************************)
(* Properties of the fingerprint and of commits that share one.            *)
(***************************************************************************)
\* C23: two commits get the same fingerprint only if their sorted sources
\* lists are equal and their processing_fingerprints lists are equal
C23_Provenance ==
  \A s, t \in Sessions :
    (/\ Committed(s) /\ Committed(t)
     /\ handles[s].handle.uid = handles[t].handle.uid)
    => /\ Sorted(frames[s].sources) = Sorted(frames[t].sources)
       /\ frames[s].processing_fingerprints = frames[t].processing_fingerprints

\* C24: after any interleaving of commits that share a fingerprint, a load
\* through a handle with that fingerprint returns the table of one of these
\* commits, and the shape and the column list recorded in every handle with
\* that fingerprint describe the table loaded
C24_SafeRace ==
  [][(Loads /\ loaded'.raised = "none") =>
       /\ \E t \in Sessions :
            /\ Committed(t)
            /\ handles[t].handle.cache_path = FileOf(loaded')
            /\ SameValues(loaded'.table, frames[t].dataframe)
       /\ \A t \in Sessions :
            (Committed(t) /\ handles[t].handle.cache_path = FileOf(loaded')) =>
              /\ handles[t].handle.shape = Shape(loaded'.table)
              /\ handles[t].handle.columns = loaded'.table.columns]_vars

(***************************************************************************)
(* Properties of the order of the nodes.                                   *)
(***************************************************************************)
\* the place of a node on the path START .. END
Rank(n) ==
  CASE n = "data_ingest" -> 1
    [] n = "data_process" -> 2
    [] n = "visualization" -> 3
    [] n = "report_generation" -> 4
    [] n = "END" -> 5

DifferBeside(p) ==
  \A i \in 1..Len(pair.left) :
    pair.left[i].data # pair.right[i].data => pair.left[i].player_name # p

\* the rows of p are the same in both results, column by column
SameRowsOf(p) ==
  /\ Len(pair.out.left.df) = Len(pair.out.right.df)
  /\ \A j \in 1..Len(pair.out.left.df) :
       LET a == pair.out.left.df[j]
           b == pair.out.right.df[j]
       IN  /\ a.player_name = b.player_name
           /\ a.date = b.date
           /\ a.player_name = p =>
                /\ a.short_term_ave = b.short_term_ave
                /\ a.week_index = b.week_index
                /\ a.long_term_ave = b.long_term_ave
                /\ a.load = b.load
                /\ a.load_quality = b.load_quality

\* the rows of a frame in the opposite order
Reversed(s) == [i \in 1..Len(s) |-> s[Len(s) + 1 - i]]

\* C26: for two frames with the same players and dates that differ only in
\* data of players other than p, every row of p has the same short_term_ave,
\* week_index, long_term_ave, load and load_quality in both processed
\* frames; and a frame whose players come in the opposite order gives the
\* same processed frame
C26_PlayersSelfContained ==
  (Processed /\ SameKeys) =>
    /\ \A p \in PairPlayers : DifferBeside(p) => SameRowsOf(p)
    /\ pair.left = pair.right => process_all(Reversed(pair.left)) = pair.out.left

\* the frames differ in a load of "B" in week 1, and "A" has a long-term
\* average in a later week, the same in both results
C26_Witness ==
  /\ Processed
  /\ SameKeys
  /\ DifferBeside("A")
  /\ \E i \in 1..Len(pair.left) :
       /\ pair.left[i].player_name = "B"
       /\ pair.left[i].date = Num(6)
       /\ IsNum(pair.left[i].data)
       /\ IsNum(pair.right[i].data)
       /\ pair.left[i].data # pair.right[i].data
  /\ \E j \in 1..Len(pair.out.left.df) :
       /\ pair.out.left.df[j].player_name = "A"
       /\ IsNum(pair.out.left.df[j].long_term_ave)
       /\ pair.out.right.df[j].long_term_ave = pair.out.left.df[j].long_term_ave

(***************************************************************************)
(* Properties of load on a long-term average of zero.                      *)
(***************************************************************************)
\* C27: on every row of the processed frame whose short_term_ave and
\* long_term_ave are both present, a long_term_ave of 0 included, load is a
\* finite number and load_quality is one of high, medium, low
C27_FiniteLoad ==
  pc = "done" =>
    \A i \in 1..Len(df) :
      (~IsNa(df[i].short_term_ave) /\ ~IsNa(df[i].long_term_ave)) =>
        /\ IsNum(df[i].load)
        /\ df[i].load_quality \in {"high", "medium", "low"}

(***************************************************************************)
(* Properties of the columns apply_mapping returns.                        *)
(***************************************************************************)
\* C28: whatever the columns of the input, a canonical name right of the
\* detected column included, the table apply_mapping returns has only
\* columns named player_name, date or data, and each name at most once
C28_CanonicalOnce ==
  mpc = "applied" =>
    \A i \in 1..Len(result.columns) :
      /\ result.columns[i] \in {PLAYER_NAME, DATE, DATA}
      /\ \A j \in 1..Len(result.columns) : result.columns[j] = result.columns[i] => j = i

(***************************************************************************)
(* Properties of the session lifecycle of the API.                         *)
(***************************************************************************)
StatusOf(sid) == sessions[sid].status

\* the session of the last response passes the checks of the chat handler
Chattable(sid) ==
  /\ sid \in DOMAIN sessions
  /\ None # sessions[sid].state
  /\ sessions[sid].state.status = "completed"
  /\ None # sessions[sid].state.processed_data

\* C29: over all sequences of upload, process, chat and delete requests, a
\* process request starts a run only on a session whose status is uploaded
\* or failed and is answered 400, changing nothing, on a processing or
\* completed one; when it returns the status is completed or failed and no
\* session is left processing; a completed session stays completed with the
\* state it has until it is deleted; and a chat request gets past the 404
\* and 400 answers only for a session whose stored state has status
\* completed and a processed_data handle
C29_Lifecycle ==
  /\ [][\A sid \in Sessions :
          /\ (process_files(sid) /\ sid \in DOMAIN sessions'
                /\ StatusOf(sid)' = "processing")
               => StatusOf(sid) \in {"uploaded", "failed"}
          /\ (process_files(sid) /\ sid \in DOMAIN sessions
                /\ StatusOf(sid) \in {"processing", "completed"})
               => /\ response' = [op |-> "process", session_id |-> sid, code |-> 400]
                  /\ UNCHANGED <<sessions, graph_vars>>
          /\ (sid \in DOMAIN sessions /\ StatusOf(sid) = "completed")
               => \/ sid \notin DOMAIN sessions'
                  \/ sessions'[sid] = sessions[sid]]_vars
  /\ []((None # response /\ response.op = "process" /\ response.code = 200)
          => /\ response.status \in {"completed", "failed"}
             /\ StatusOf(response.session_id) = response.status)
  /\ [](None = running => \A sid \in DOMAIN sessions : StatusOf(sid) # "processing")
  /\ []((None # response /\ response.op = "chat" /\ response.code \in {200, 500})
          => Chattable(response.session_id))

\* a session was processed to completion, a chat on it was served, and a
\* second process request on it has just been rejected
C29_Witness ==
  /\ None # response
  /\ response.op = "process"
  /\ response.code = 400
  /\ response.session_id \in DOMAIN sessions
  /\ StatusOf(response.session_id) = "completed"
  /\ response.session_id \in DOMAIN chat_agents

(***************************************************************************)
(* Properties of the columns the chat tools read.                          *)
(***************************************************************************)
\* C30: every column a chat tool reads (ACWR and ACWR_category besides
\* player_name, date and data) is a column of the processed table, so no
\* tool call of a served chat request fails with a KeyError
C30_ToolColumns ==
  (None # response /\ response.op = "chat" /\ response.code = 200)
    => \A i \in 1..Len(response.tool_calls) : response.tool_calls[i].raised # "KeyError"

====
